---- MODULE Spec2Model ----
(***************************************************************************)
(* EdgeFlow: the service worker (src/public/sw.js) that forwards page      *)
(* requests to the edge function, and the edge function's proxy handler    *)
(* (src/api/proxy/route.ts).  Strings are TLA+ strings handled character   *)
(* by character, so substring tests, URL parsing and replacement are       *)
(* computed as the JavaScript computes them.                               *)
(***************************************************************************)
EXTENDS Integers, Sequences, FiniteSets, TLC

(* ------------------------------------------------------------------ *)
(* Bounds of the model                                                 *)
(* ------------------------------------------------------------------ *)

\* number of client events (direct POSTs or intercepted fetches) in one run
MaxEvents == 2

(* ------------------------------------------------------------------ *)
(* String helpers (JavaScript String.prototype semantics)              *)
(* ------------------------------------------------------------------ *)

\* the absent value: undefined / null
Null == "<null>"

CharAt(s, i) == SubSeq(s, i, i)

\* s.startsWith(p)
StartsWith(s, p) == Len(p) <= Len(s) /\ SubSeq(s, 1, Len(p)) = p

\* s.includes(sub)
Includes(s, sub) ==
  \E i \in 0..(Len(s) - Len(sub)) : SubSeq(s, i + 1, i + Len(sub)) = sub

\* s.indexOf(sub), 1-based; 0 when absent
IndexOf(s, sub) ==
  IF Includes(s, sub)
    THEN CHOOSE i \in 1..(Len(s) - Len(sub) + 1) :
           /\ SubSeq(s, i, i + Len(sub) - 1) = sub
           /\ \A j \in 1..(i - 1) : SubSeq(s, j, j + Len(sub) - 1) # sub
    ELSE 0

\* the rest of s from position i (1-based) on
From(s, i) == SubSeq(s, i, Len(s))

UpperChars == "ABCDEFGHIJKLMNOPQRSTUVWXYZ"
LowerChars == "abcdefghijklmnopqrstuvwxyz"

\* the lower-case letter of each upper-case letter
LowerOf ==
  [c \in {CharAt(UpperChars, i) : i \in 1..Len(UpperChars)} |->
     CharAt(LowerChars, IndexOf(UpperChars, c))]

LowerChar(c) == IF c \in DOMAIN LowerOf THEN LowerOf[c] ELSE c

\* s.toLowerCase()
RECURSIVE ToLowerCase(_)
ToLowerCase(s) ==
  IF s = "" THEN "" ELSE LowerChar(CharAt(s, 1)) \o ToLowerCase(From(s, 2))

\* s.replace(new RegExp(pattern, 'g'), replacement) for a pattern without
\* metacharacters: every non-overlapping occurrence, left to right
RECURSIVE ReplaceAll(_, _, _)
ReplaceAll(s, pattern, replacement) ==
  IF pattern = "" \/ ~Includes(s, pattern)
    THEN s
    ELSE LET i == IndexOf(s, pattern)
         IN  SubSeq(s, 1, i - 1) \o replacement
               \o ReplaceAll(From(s, i + Len(pattern)), pattern, replacement)

\* array.some(pred) over a sequence of strings: some entry is a substring of s
SomeIncluded(entries, s) == \E k \in 1..Len(entries) : Includes(s, entries[k])

(* ------------------------------------------------------------------ *)
(* new URL(u): scheme, hostname, pathname                              *)
(* ------------------------------------------------------------------ *)

SpecialSchemes == {"http", "https"}

UrlScheme(u) == SubSeq(u, 1, IndexOf(u, ":") - 1)

\* what follows "scheme://", or "" when the URL has no authority part
UrlAfterSlashes(u) ==
  LET rest == From(u, IndexOf(u, ":") + 1)
  IN  IF StartsWith(rest, "//") THEN From(rest, 3) ELSE ""

\* s up to the query or fragment, when it has one
BeforeQuery(s) ==
  LET q == IF Includes(s, "?") THEN SubSeq(s, 1, IndexOf(s, "?") - 1) ELSE s
  IN  IF Includes(q, "#") THEN SubSeq(q, 1, IndexOf(q, "#") - 1) ELSE q

\* host[:port], up to the first "/" of the authority
UrlAuthority(u) ==
  LET a == BeforeQuery(UrlAfterSlashes(u))
  IN  IF Includes(a, "/") THEN SubSeq(a, 1, IndexOf(a, "/") - 1) ELSE a

\* new URL(u) does not throw
UrlValid(u) ==
  /\ u # Null
  /\ IndexOf(u, ":") > 1
  /\ ~Includes(UrlScheme(u), " ")
  /\ (ToLowerCase(UrlScheme(u)) \in SpecialSchemes => UrlAuthority(u) # "")

\* new URL(u).protocol
UrlProtocol(u) == ToLowerCase(UrlScheme(u)) \o ":"

\* new URL(u).hostname: the authority without its port, lower-cased
UrlHostname(u) ==
  LET a == UrlAuthority(u)
      h == IF Includes(a, ":") THEN SubSeq(a, 1, IndexOf(a, ":") - 1) ELSE a
  IN  ToLowerCase(h)

\* new URL(u).pathname
UrlPathname(u) ==
  LET a == BeforeQuery(UrlAfterSlashes(u))
  IN  IF ToLowerCase(UrlScheme(u)) \in SpecialSchemes
        THEN IF Includes(a, "/") THEN From(a, IndexOf(a, "/")) ELSE "/"
      ELSE IF StartsWith(From(u, IndexOf(u, ":") + 1), "//")
        THEN IF Includes(a, "/") THEN From(a, IndexOf(a, "/")) ELSE ""
      ELSE BeforeQuery(From(u, IndexOf(u, ":") + 1))

(* ------------------------------------------------------------------ *)
(* Headers: a function from header names to values                     *)
(* ------------------------------------------------------------------ *)

EmptyHeaders == [n \in {} |-> ""]

\* headers.get(name): null when the header is absent
HeaderGet(h, name) == IF name \in DOMAIN h THEN h[name] ELSE Null

\* value || dflt
OrDefault(v, dflt) == IF v = Null \/ v = "" THEN dflt ELSE v

\* { ...h, [name]: value }
HeaderSet(h, name, value) ==
  [n \in (DOMAIN h) \cup {name} |-> IF n = name THEN value ELSE h[n]]

\* delete h[name] for every name of names
HeaderDelete(h, names) == [n \in (DOMAIN h) \ names |-> h[n]]

\* the value a Headers object holds under the lower-case name n when it is
\* filled from record: the values of every spelling of n, joined by ", ".
\* The records here carry at most one spelling beside the lower-case one, and
\* it precedes the lower-case one.
CombinedValue(record, n) ==
  LET others == {m \in DOMAIN record : m # n /\ ToLowerCase(m) = n}
  IN  IF others = {} THEN record[n]
      ELSE LET m == CHOOSE m \in others : TRUE
           IN  IF n \in DOMAIN record THEN record[m] \o ", " \o record[n] ELSE record[m]

\* new Headers(record), as new Request(url, {headers: record}) and the
\* response of fetch build it: names are lower-cased, and the values of names
\* that differ only in case are combined
HeadersInit(record) ==
  [n \in {ToLowerCase(m) : m \in DOMAIN record} |-> CombinedValue(record, n)]

(* ------------------------------------------------------------------ *)
(* Configuration (route.ts: ProxyConfig, DEFAULT_CONFIG)               *)
(* ------------------------------------------------------------------ *)

DEFAULT_CONFIG ==
  [enabled          |-> TRUE,
   cacheTTL         |-> 3600,
   maxContentLength |-> 10 * 1024 * 1024,
   allowedDomains   |-> << >>,
   blockedDomains   |-> << >>,
   transformRules   |-> << >>]

\* the response-size cap of the stored configurations
StoredMaxContentLength == 7

ContentRule == [pattern |-> "foo", replacement |-> "bar", type |-> "content"]

BlockList == <<"blocked-site.com", "news.">>
AllowList == <<"example.com">>

StoredConfig(enabled, allowed, blocked, rules) ==
  [enabled          |-> enabled,
   cacheTTL         |-> 60,
   maxContentLength |-> StoredMaxContentLength,
   allowedDomains   |-> allowed,
   blockedDomains   |-> blocked,
   transformRules   |-> rules]

\* what the Edge Config item 'proxy-config' may hold when it holds a ProxyConfig
StoredConfigs ==
  {StoredConfig(TRUE,  << >>,     BlockList, <<ContentRule>>),
   StoredConfig(TRUE,  AllowList, << >>,     << >>),
   StoredConfig(TRUE,  AllowList, BlockList, <<ContentRule>>),
   StoredConfig(FALSE, AllowList, BlockList, << >>)}

(* ------------------------------------------------------------------ *)
(* ScramjetEngine (route.ts 36-127)                                    *)
(* ------------------------------------------------------------------ *)

\* new RegExp(pattern, 'g') throws a SyntaxError
RegExpThrows(pattern) == pattern = "("

\* some rule of the given type has a pattern new RegExp rejects
RulesThrow(rules, type) ==
  \E k \in 1..Len(rules) : rules[k].type = type /\ RegExpThrows(rules[k].pattern)

\* the for-loop with a replace that stops after the first occurrence
RECURSIVE ApplyRules_FirstOccurrence(_, _, _, _)
ApplyRules_FirstOccurrence(text, rules, type, k) ==
  IF k > Len(rules)
    THEN text
    ELSE ApplyRules_FirstOccurrence(
           IF rules[k].type = type /\ Includes(text, rules[k].pattern)
             THEN LET i == IndexOf(text, rules[k].pattern)
                  IN  SubSeq(text, 1, i - 1) \o rules[k].replacement
                        \o From(text, i + Len(rules[k].pattern))
             ELSE text,
           rules, type, k + 1)

\* the for-loop over transformRules: the rules of one type, in list order,
\* each replacing every occurrence in the output of the previous one
RECURSIVE ApplyRules(_, _, _, _)
ApplyRules(text, rules, type, k) ==
  IF k > Len(rules)
    THEN text
    ELSE ApplyRules(IF rules[k].type = type
                      THEN ReplaceAll(text, rules[k].pattern, rules[k].replacement)
                      ELSE text,
                    rules, type, k + 1)

censoredDomains == <<"blocked-site.com", "restricted-content.org">>
frontDomains == <<"google.com", "cloudflare.com", "aws.amazon.com">>
userAgents ==
  <<"Mozilla/5.0 (Windows NT 10.0; Win64; x64) AppleWebKit/537.36",
    "Mozilla/5.0 (Macintosh; Intel Mac OS X 10_15_7) AppleWebKit/537.36",
    "Mozilla/5.0 (X11; Linux x86_64) AppleWebKit/537.36">>

shouldApplyDomainFronting(url) == SomeIncluded(censoredDomains, url)

\* encodeURIComponent on one character
EncodeChar(c) ==
  CASE c = ":" -> "%3A"
    [] c = "/" -> "%2F"
    [] c = "?" -> "%3F"
    [] c = "=" -> "%3D"
    [] c = "&" -> "%26"
    [] c = " " -> "%20"
    [] c = "%" -> "%25"
    [] OTHER   -> c

RECURSIVE encodeURIComponent(_)
encodeURIComponent(s) ==
  IF s = "" THEN "" ELSE EncodeChar(CharAt(s, 1)) \o encodeURIComponent(From(s, 2))

\* url.replace(/^https?:\/\//, `https://${front}/proxy?url=${encodeURIComponent(url)}&`)
applyDomainFronting(url, front) ==
  LET prefix == "https://" \o front \o "/proxy?url=" \o encodeURIComponent(url) \o "&"
  IN  IF StartsWith(url, "https://") THEN prefix \o From(url, 9)
      ELSE IF StartsWith(url, "http://") THEN prefix \o From(url, 8)
      ELSE url

\* rewriteUrl: the url rules, then fronting decided on the ORIGINAL url
rewriteUrl(config, originalUrl, front) ==
  LET rewrittenUrl == ApplyRules(originalUrl, config.transformRules, "url", 1)
  IN  IF shouldApplyDomainFronting(originalUrl)
        THEN applyDomainFronting(rewrittenUrl, front)
        ELSE rewrittenUrl

IdentifyingHeaders == {"cookie", "referer", "origin"}

sanitizeHeaders(headers, userAgent, ip) ==
  HeaderSet(HeaderSet(HeaderSet(HeaderDelete(headers, IdentifyingHeaders),
    "user-agent", userAgent), "x-forwarded-for", ip),
    "x-proxy-engine", "edgeflow-scramjet")

\* transformContent: no rules, the content as it is; else the content rules
transformContent(config, content) ==
  IF Len(config.transformRules) = 0
    THEN content
    ELSE ApplyRules(content, config.transformRules, "content", 1)

(* ------------------------------------------------------------------ *)
(* isCacheableResponse (route.ts 290-307)                              *)
(* ------------------------------------------------------------------ *)

\* isCacheableResponse comparing the content type for equality
isCacheableResponse_Equality(response) ==
  LET cacheControl == OrDefault(HeaderGet(response.headers, "cache-control"), "")
      contentType  == OrDefault(HeaderGet(response.headers, "content-type"), "")
  IN  IF response.status >= 400 THEN FALSE
      ELSE IF \/ Includes(cacheControl, "no-cache")
              \/ Includes(cacheControl, "no-store")
              \/ contentType = "application/json"
        THEN FALSE
      ELSE TRUE

isCacheableResponse(response) ==
  LET cacheControl == OrDefault(HeaderGet(response.headers, "cache-control"), "")
      contentType  == OrDefault(HeaderGet(response.headers, "content-type"), "")
  IN  IF response.status >= 400 THEN FALSE
      ELSE IF \/ Includes(cacheControl, "no-cache")
              \/ Includes(cacheControl, "no-store")
              \/ Includes(contentType, "application/json")
        THEN FALSE
      ELSE TRUE

\* the output headers with every origin header copied
responseHeaders_CopyAll(response) ==
  HeaderSet(HeaderSet(response.headers, "x-proxied-by", "edgeflow"), "x-cache-status", "MISS")

\* the headers copied into the output: all but the skipped ones, plus the
\* two proxy headers
SkippedResponseHeaders == {"set-cookie", "connection", "transfer-encoding"}

responseHeaders(response) ==
  HeaderSet(HeaderSet(
    [n \in {m \in DOMAIN response.headers : ToLowerCase(m) \notin SkippedResponseHeaders}
       |-> response.headers[n]],
    "x-proxied-by", "edgeflow"), "x-cache-status", "MISS")

(* ------------------------------------------------------------------ *)
(* Inputs                                                              *)
(* ------------------------------------------------------------------ *)

\* an optional value: << >> when absent, <<v>> when present
None == << >>
Some(v) == <<v>>

AppRoot       == "https://app.edgeflow.dev/"
NewsUrl       == "https://news.example.com/a"
BlockedUrl    == "https://blocked-site.com/x"
AllowedUrl    == "https://Example.com/b"
AssetUrl      == "https://news.example.com/app.js"

CookieHeaders == [n \in {"cookie"} |-> "sid=1"]

\* the JSON bodies a direct caller may POST to /api/proxy
DirectBody(malformed, url, method, headers, body) ==
  [malformed |-> malformed, url |-> url, method |-> method, headers |-> headers, body |-> body]

DirectBodies ==
  {DirectBody(TRUE,  Null,        Null,  EmptyHeaders,  Null),
   DirectBody(FALSE, Null,        Null,  EmptyHeaders,  Null),
   DirectBody(FALSE, "",          Null,  EmptyHeaders,  Null),
   DirectBody(FALSE, "not a url", Null,  EmptyHeaders,  Null),
   DirectBody(FALSE, "https://",  Null,  EmptyHeaders,  Null),
   DirectBody(FALSE, BlockedUrl,  Null,  CookieHeaders, Null),
   DirectBody(FALSE, AllowedUrl,  "GET", EmptyHeaders,  Null),
   DirectBody(FALSE, AllowedUrl,  "GET", EmptyHeaders,  "x")}

\* the requests a controlled page may issue
PageRequests ==
  {[url |-> u, method |-> "GET", headers |-> EmptyHeaders, body |-> Null] :
      u \in {AppRoot, NewsUrl, AssetUrl}}
  \cup {[url |-> NewsUrl, method |-> "POST", headers |-> CookieHeaders, body |-> "q=1"]}

\* what an origin may answer
OriginStatuses     == {200, 204, 404}
OriginContentTypes ==
  {Null, "text/html", "application/json", "application/json; charset=utf-8",
   "application/json-seq"}
OriginCacheControl == {Null, "no-store", "private, no-cache"}
InvalidByte        == "^"
ReplacementChar    == "?"
\* n bytes of filler
RECURSIVE Filler(_)
Filler(n) == IF n = 0 THEN "" ELSE "x" \o Filler(n - 1)

\* a body under the stored size cap, one of exactly the cap, one over it
UnderCapBody       == "foo f^"
AtCapBody          == Filler(StoredMaxContentLength)
OverCapBody        == Filler(StoredMaxContentLength + 1)
OriginBodies       == {UnderCapBody, AtCapBody, OverCapBody}

\* the header lines of an answer, as the origin spells them
OriginHeaders(ct, cc) ==
  [n \in (IF ct = Null THEN {} ELSE {"content-type"})
           \cup (IF cc = Null THEN {} ELSE {"cache-control"})
           \cup {"Set-Cookie", "CONNECTION", "transfer-encoding"}
     |-> CASE n = "content-type"      -> ct
           [] n = "cache-control"     -> cc
           [] n = "CONNECTION"        -> "keep-alive"
           [] n = "transfer-encoding" -> "chunked"
           [] OTHER                   -> "t=1"]

OriginResponse(st, ct, cc, b) ==
  [status |-> st, headers |-> OriginHeaders(ct, cc), body |-> IF st = 204 THEN Null ELSE b]

\* every status with every header combination (a 204 answer has no body),
\* and the bodies at and over the size cap
AllAnswers ==
  {OriginResponse(st, ct, cc, UnderCapBody) :
     st \in OriginStatuses, ct \in OriginContentTypes, cc \in OriginCacheControl}
  \cup {OriginResponse(200, "text/html", Null, b) : b \in OriginBodies}

\* one answer for each way a response is treated
FewAnswers ==
  {OriginResponse(200, "text/html", Null, UnderCapBody),
   OriginResponse(200, "text/html", Null, OverCapBody),
   OriginResponse(200, "text/html", "no-store", UnderCapBody),
   OriginResponse(204, "text/html", "no-store", Null),
   OriginResponse(404, "text/html", Null, UnderCapBody)}

\* Math.floor(Math.random() * 256), twice
RandomIPs == {"192.168.0.0", "192.168.255.255"}

\* what cache.addAll(['/', '/manifest.json']) stored at install
PrecachedShell ==
  [status |-> 200, headers |-> [n \in {"content-type"} |-> "text/html"], body |-> "shell"]

(* ------------------------------------------------------------------ *)
(* Inputs that exercise the rewriting: transform rules of every type,  *)
(* patterns new RegExp rejects, header names in any letter case        *)
(* ------------------------------------------------------------------ *)

UrlFooRule      == [pattern |-> "foo", replacement |-> "bar", type |-> "url"]
UrlBarRule      == [pattern |-> "bar/bar", replacement |-> "baz", type |-> "url"]
ContentBarRule  == [pattern |-> "bar bar", replacement |-> "baz", type |-> "content"]
ToSensitiveRule == [pattern |-> "example.com", replacement |-> "restricted-content.org",
                    type |-> "url"]
\* a rule whose pattern is not a regular expression
BadRule(type)   == [pattern |-> "(", replacement |-> "", type |-> type]

\* a url rule whose replacement is a host of the block-list
ToBlockedRule   == [pattern |-> "example.com", replacement |-> "blocked-site.com",
                    type |-> "url"]

RuleConfig(rules) == [DEFAULT_CONFIG EXCEPT !.transformRules = rules]

RuleConfigs ==
  {RuleConfig(<<UrlFooRule, ContentRule, UrlBarRule, ContentBarRule>>),
   RuleConfig(<<BadRule("url"), UrlFooRule, ContentRule>>),
   RuleConfig(<<UrlFooRule, BadRule("content"), ContentRule>>),
   RuleConfig(<<BadRule("header"), ContentRule>>),
   RuleConfig(<<ToSensitiveRule>>),
   [RuleConfig(<<ToBlockedRule>>) EXCEPT !.blockedDomains = BlockList]}

FooUrl       == "https://example.com/foo/foo"
QueryUrl     == "https://example.com/?q=blocked-site.com"
SensitiveUrl == "http://restricted-content.org/"
RewriteUrls  == {FooUrl, QueryUrl, SensitiveUrl, BlockedUrl}

\* the header records a direct caller may put in the JSON body
HeaderMaps ==
  {EmptyHeaders,
   CookieHeaders,
   [n \in {"Cookie", "Referer"} |-> IF n = "Cookie" THEN "sid=1" ELSE "https://a.example/"],
   [n \in {"COOKIE", "origin", "accept"} |->
      CASE n = "COOKIE" -> "sid=2" [] n = "origin" -> "https://a.example" [] OTHER -> "*/*"],
   [n \in {"User-Agent"} |-> "curl/8.0"]}

RewriteBodies ==
  {DirectBody(FALSE, u, "GET", h, Null) : u \in RewriteUrls, h \in HeaderMaps}

RewriteAnswers ==
  {OriginResponse(200, "text/html", Null, "foo foo"),
   OriginResponse(200, "text/html", "no-store", UnderCapBody)}

(* ------------------------------------------------------------------ *)
(* State                                                               *)
(* ------------------------------------------------------------------ *)

VARIABLES
  edgeConfig,    \* the Edge Config item 'proxy-config': None or Some(config)
  origin,        \* the answers the origin servers may give in this run
  ePc,           \* the proxy POST handler's position
  eCaller,       \* who awaits the handler: "direct", "sw", "get", or a named caller
  eReq,          \* the request body the handler was called with
  eConfig,       \* the configuration the handler runs under: None until loaded
  eOriginReq,    \* the origin request in flight: None or Some(request)
  eFetchLog,     \* the urls of the origin fetches this handler run has issued
  eResp,         \* the origin response: None or Some(response)
  eBuffer,       \* what response.arrayBuffer() resolved with: None or Some(bytes)
  eTransformIn,  \* what transformContent was called with: None or Some(content)
  eOut,          \* the handler's answer: [status, json]
  eInsert,       \* the proxy_cache row being inserted: None or Some(row)
  eInserted,     \* the number of rows this handler run has inserted
  proxy_cache,   \* the server-tier cache table: a sequence of rows
  now,           \* the clock
  swPc,          \* handleProxyRequest's position
  swReq,         \* the intercepted request
  swResult,      \* what the page receives: [kind, response]
  swLog,         \* what this invocation did: a set of marks
  swHeld,        \* what the cache held for the request when caches.match settled
  clientCache,   \* the Cache Storage: url -> response
  pendingPuts,   \* cache.put calls not yet settled
  events,        \* the number of client events so far
  pages,         \* the requests the controlled pages may issue in this run
  parked,        \* the locals of a handler run suspended at an await: None or Some
  cPc,           \* the config POST handler's position
  cReq,          \* the body the config POST handler was called with
  cNew,          \* newConfig, the merged configuration: None until the merge
  cOut,          \* the config POST handler's answer: [status, json]
  cLog,          \* what became of logActivity's INSERT: "none", "stored", "failed"
  gOut,          \* the answer of the latest GET /api/config: [status, json]
  lPc,           \* the logs GET handler's position
  lReq,          \* the query parameters the logs GET handler was called with
  lTotal,        \* the total the count query reported to the logs GET handler
  lOut,          \* the logs GET handler's answer: [status, json]
  proxy_config,  \* the PostgreSQL table proxy_config, row id 1: None or Some(config)
  proxy_logs     \* the PostgreSQL table proxy_logs: a sequence of rows

edgeVars == <<ePc, eCaller, eReq, eConfig, eOriginReq, eFetchLog, eResp, eBuffer,
              eTransformIn, eOut, eInsert, eInserted, proxy_cache, now>>
swVars   == <<swPc, swReq, swResult, swLog, swHeld, clientCache, pendingPuts>>
envVars  == <<edgeConfig, origin, pages>>
logVars  == <<lPc, lReq, lTotal, lOut>>
cfgVars  == <<cPc, cReq, cNew, cOut, cLog, gOut, proxy_config, proxy_logs, logVars>>
vars     == <<envVars, edgeVars, swVars, events, parked, cfgVars>>

NoRequest  == [malformed |-> FALSE, url |-> Null, method |-> Null,
               headers |-> EmptyHeaders, body |-> Null]
NoPageRequest == [url |-> Null, method |-> Null, headers |-> EmptyHeaders, body |-> Null]
NoResponse == [status |-> 0, headers |-> EmptyHeaders, body |-> Null]
NoOut      == [status |-> 0, json |-> [error |-> Null]]
NoResult   == [kind |-> "none", response |-> NoResponse]
NoUpdate   == [kind |-> "none", entries |-> << >>]

NoLogsRequest == [level |-> Null, limit |-> Null, offset |-> Null,
                  startDate |-> None, endDate |-> None]

\* no GET /api/logs has been made
LogsRouteIdle ==
  /\ lPc = "idle"
  /\ lReq = NoLogsRequest
  /\ lTotal = 0
  /\ lOut = NoOut

\* no config POST has been made and the tables of the control plane are empty
ConfigRouteIdle ==
  /\ LogsRouteIdle
  /\ cPc = "idle"
  /\ cReq = NoUpdate
  /\ cNew = None
  /\ cOut = NoOut
  /\ cLog = "none"
  /\ gOut = NoOut
  /\ proxy_config = None
  /\ proxy_logs = << >>

Init ==
  /\ edgeConfig \in {None} \cup {Some(c) : c \in StoredConfigs}
  /\ origin = FewAnswers
  /\ ePc = "idle"
  /\ eCaller = "direct"
  /\ eReq = NoRequest
  /\ eConfig = None
  /\ eOriginReq = None
  /\ eFetchLog = << >>
  /\ eResp = None
  /\ eBuffer = None
  /\ eTransformIn = None
  /\ eOut = NoOut
  /\ eInsert = None
  /\ eInserted = 0
  /\ proxy_cache = << >>
  /\ now = 0
  /\ swPc = "idle"
  /\ swReq = NoPageRequest
  /\ swResult = NoResult
  /\ swLog = {}
  /\ swHeld = None
  /\ clientCache = [u \in {AppRoot} |-> PrecachedShell]
  /\ pendingPuts = {}
  /\ events = 0
  /\ pages = PageRequests
  /\ parked = None
  /\ ConfigRouteIdle

(* ------------------------------------------------------------------ *)
(* The proxy handler: POST (route.ts 130-267)                          *)
(* ------------------------------------------------------------------ *)

ErrorOut(status, message) == [status |-> status, json |-> [error |-> message]]

\* the handler returns: its answer is out
EdgeReturn(out) ==
  /\ ePc' = "done"
  /\ eOut' = out

\* the catch block (259-266)
EdgeCatch == EdgeReturn(ErrorOut(500, "Proxy request failed"))

\* a rejection returned only after the request has been sent to the origin
EarlyReturn_AfterFetch(out) ==
  /\ EdgeReturn(out)
  /\ eFetchLog' = Append(eFetchLog, eReq.url)
  /\ UNCHANGED eOriginReq

\* a return that precedes the fetch of line 201: nothing has been sent
EarlyReturn(out) ==
  /\ EdgeReturn(out)
  /\ UNCHANGED <<eOriginReq, eFetchLog>>

\* a new handler run
EdgeBegin(caller, req) ==
  /\ ePc' = "config"
  /\ eCaller' = caller
  /\ eReq' = req
  /\ eConfig' = None
  /\ eOriginReq' = None
  /\ eFetchLog' = << >>
  /\ eResp' = None
  /\ eBuffer' = None
  /\ eTransformIn' = None
  /\ eOut' = NoOut
  /\ eInsert' = None
  /\ eInserted' = 0
  /\ now' = now + 1
  /\ UNCHANGED proxy_cache

\* the store's answer read as a configuration (134-136)
ConfigOf(configData) == IF configData = None THEN DEFAULT_CONFIG ELSE configData[1]

\* the load with the disabled test left to the steps after the body: a
\* disabled configuration goes on to parse the request
EdgeLoadConfig_NoDisabledTest ==
  /\ ePc = "config"
  /\ \/ /\ EdgeCatch
        /\ UNCHANGED eConfig
     \/ /\ eConfig' = Some(ConfigOf(edgeConfig))
        /\ ePc' = "body"
        /\ UNCHANGED eOut
  /\ UNCHANGED <<eCaller, eReq, eOriginReq, eFetchLog, eResp, eBuffer, eTransformIn,
                 eInsert, eInserted, proxy_cache, now, envVars, cfgVars, parked, swVars, events>>

\* await get('proxy-config') settles (133-143)
EdgeLoadConfig ==
  /\ ePc = "config"
  /\ \/ /\ EdgeCatch
        /\ UNCHANGED eConfig
     \/ /\ eConfig' = Some(ConfigOf(edgeConfig))
        /\ IF ~ConfigOf(edgeConfig).enabled
             THEN EdgeReturn(ErrorOut(503, "Proxy service is disabled"))
             ELSE ePc' = "body" /\ UNCHANGED eOut
  /\ UNCHANGED <<eCaller, eReq, eOriginReq, eFetchLog, eResp, eBuffer, eTransformIn,
                 eInsert, eInserted, proxy_cache, now, envVars, cfgVars, parked, swVars, events>>

\* the domain checks with the allow-list consulted first: an allow-list match
\* lets a blocked host through
DomainRejection_AllowFirst(config, hostname) ==
  IF Len(config.allowedDomains) > 0 /\ SomeIncluded(config.allowedDomains, hostname)
    THEN ""
  ELSE IF SomeIncluded(config.blockedDomains, hostname)
    THEN "Domain is blocked"
  ELSE IF Len(config.allowedDomains) > 0
    THEN "Domain is not allowed"
  ELSE ""

\* the domain checks without the length test: an empty allow-list allows nothing
DomainRejection_EmptyAllowsNothing(config, hostname) ==
  IF SomeIncluded(config.blockedDomains, hostname)
    THEN "Domain is blocked"
  ELSE IF ~SomeIncluded(config.allowedDomains, hostname)
    THEN "Domain is not allowed"
  ELSE ""

\* the domain checks (166-180): "" when the request passes, else the message
DomainRejection(config, hostname) ==
  IF SomeIncluded(config.blockedDomains, hostname)
    THEN "Domain is blocked"
  ELSE IF Len(config.allowedDomains) > 0
          /\ ~SomeIncluded(config.allowedDomains, hostname)
    THEN "Domain is not allowed"
  ELSE ""

\* new Request(url, {method, headers, body}) throws
NewRequestThrows(url, method, body) ==
  \/ ~UrlValid(url)
  \/ (method \in {"GET", "HEAD"} /\ body # Null)

\* await request.json() settles, then everything up to the fetch (145-203)
EdgeParseAndFetch ==
  /\ ePc = "body"
  /\ LET config == eConfig[1]
         url    == eReq.url
         method == OrDefault(eReq.method, "GET")
     IN  IF eReq.malformed THEN
           EdgeCatch /\ UNCHANGED <<eOriginReq, eFetchLog>>
         ELSE IF url = Null \/ url = "" THEN
           EarlyReturn(ErrorOut(400, "URL is required"))
         ELSE IF ~UrlValid(url) THEN
           EarlyReturn(ErrorOut(400, "Invalid URL format"))
         ELSE IF DomainRejection(config, UrlHostname(url)) # "" THEN
           EarlyReturn(ErrorOut(403, DomainRejection(config, UrlHostname(url))))
         ELSE IF RulesThrow(config.transformRules, "url") THEN
           EdgeCatch /\ UNCHANGED <<eOriginReq, eFetchLog>>
         ELSE
           \E f \in 1..Len(frontDomains), a \in 1..Len(userAgents), ip \in RandomIPs :
             \E rewrittenUrl \in {rewriteUrl(config, url, frontDomains[f])},
                sanitized \in {sanitizeHeaders(eReq.headers, userAgents[a], ip)} :
               IF NewRequestThrows(rewrittenUrl, method, eReq.body)
                 THEN EdgeCatch /\ UNCHANGED <<eOriginReq, eFetchLog>>
                 ELSE /\ eOriginReq' = Some([url |-> rewrittenUrl, method |-> method,
                                              headers |-> HeadersInit(sanitized),
                                              body |-> eReq.body])
                      /\ eFetchLog' = Append(eFetchLog, rewrittenUrl)
                      /\ ePc' = "fetch"
                      /\ UNCHANGED eOut
  /\ UNCHANGED <<eCaller, eReq, eConfig, eResp, eBuffer, eTransformIn, eInsert,
                 eInserted, proxy_cache, now, envVars, cfgVars, parked, swVars, events>>

\* from the content on (222-257): transform, headers, cacheability, and the
\* INSERT when cacheable
EdgeFinish(response, content) ==
  LET config       == eConfig[1]
      contentType  == OrDefault(HeaderGet(response.headers, "content-type"), "text/plain")
      cacheable    == isCacheableResponse(response)
      transformed  == transformContent(config, content)
      success      == [status |-> 200,
                       json   |-> [content     |-> transformed,
                                   contentType |-> contentType,
                                   status      |-> response.status,
                                   headers     |-> responseHeaders(response),
                                   cacheable   |-> cacheable]]
  IN  IF Len(config.transformRules) # 0 /\ RulesThrow(config.transformRules, "content") THEN
        EdgeCatch /\ eTransformIn' = Some(content) /\ UNCHANGED <<eInsert, now>>
      ELSE IF cacheable THEN
        /\ eTransformIn' = Some(content)
        /\ eInsert' = Some([cache_key    |-> <<"proxy", eReq.url, now>>,
                            content      |-> transformed,
                            content_type |-> contentType,
                            status       |-> response.status,
                            headers      |-> responseHeaders(response),
                            expires_at   |-> now + config.cacheTTL])
        /\ ePc' = "insert"
        /\ eOut' = success
        /\ UNCHANGED now
      ELSE
        EdgeReturn(success) /\ eTransformIn' = Some(content) /\ UNCHANGED <<eInsert, now>>

\* the fetch with one retry: a rejected fetch is issued a second time
EdgeFetchSettle_Retry ==
  /\ ePc = "fetch"
  /\ \/ /\ Len(eFetchLog) < 2
        /\ eFetchLog' = Append(eFetchLog, eOriginReq[1].url)
        /\ UNCHANGED <<ePc, eOut, eOriginReq, eResp, eTransformIn, eInsert, now>>
     \/ /\ Len(eFetchLog) >= 2
        /\ eOriginReq' = None
        /\ EdgeCatch
        /\ UNCHANGED <<eFetchLog, eResp, eTransformIn, eInsert, now>>
     \/ \E response \in {[answer EXCEPT !.headers = HeadersInit(@)] : answer \in origin} :
          /\ eOriginReq' = None
          /\ eResp' = Some(response)
          /\ IF response.body = Null
               THEN EdgeFinish(response, "")
               ELSE ePc' = "read" /\ UNCHANGED <<eOut, eTransformIn, eInsert, now>>
          /\ UNCHANGED eFetchLog
  /\ UNCHANGED <<eCaller, eReq, eConfig, eBuffer, eInserted, proxy_cache,
                 envVars, cfgVars, parked, swVars, events>>

\* await fetch(proxyRequest) settles (201-209)
EdgeFetchSettle ==
  /\ ePc = "fetch"
  /\ eOriginReq' = None
  /\ \/ EdgeCatch /\ UNCHANGED <<eResp, eTransformIn, eInsert, now>>
     \/ \E response \in {[answer EXCEPT !.headers = HeadersInit(@)] : answer \in origin} :
          /\ eResp' = Some(response)
          /\ IF response.body = Null
               THEN EdgeFinish(response, "")
               ELSE ePc' = "read" /\ UNCHANGED <<eOut, eTransformIn, eInsert, now>>
  /\ UNCHANGED <<eCaller, eReq, eConfig, eFetchLog, eBuffer, eInserted, proxy_cache,
                 envVars, cfgVars, parked, swVars, events>>

\* new TextDecoder('utf-8', {fatal: false}).decode(buffer): a byte sequence
\* that is not UTF-8 (InvalidByte stands for one) becomes U+FFFD
\* (ReplacementChar stands for it)
Decode(body) == ReplaceAll(body, InvalidByte, ReplacementChar)

\* the read without the size test: every body goes on to the transformer
EdgeReadSettle_NoCap ==
  /\ ePc = "read"
  /\ \/ EdgeCatch /\ UNCHANGED <<eBuffer, eTransformIn, eInsert, now>>
     \/ /\ eBuffer' = Some(eResp[1].body)
        /\ EdgeFinish(eResp[1], Decode(eResp[1].body))
  /\ UNCHANGED <<eCaller, eReq, eConfig, eOriginReq, eFetchLog, eResp, eInserted,
                 proxy_cache, envVars, cfgVars, parked, swVars, events>>

\* await response.arrayBuffer() settles (210-220)
EdgeReadSettle ==
  /\ ePc = "read"
  /\ \/ EdgeCatch /\ UNCHANGED <<eBuffer, eTransformIn, eInsert, now>>
     \/ LET response == eResp[1]
            buffer   == response.body
        IN  /\ eBuffer' = Some(buffer)
            /\ IF Len(buffer) < eConfig[1].maxContentLength
                 THEN EdgeFinish(response, Decode(buffer))
                 ELSE /\ EdgeReturn(ErrorOut(413, "Content too large"))
                      /\ UNCHANGED <<eTransformIn, eInsert, now>>
  /\ UNCHANGED <<eCaller, eReq, eConfig, eOriginReq, eFetchLog, eResp, eInserted,
                 proxy_cache, envVars, cfgVars, parked, swVars, events>>

\* the table proxy_cache takes an INSERT the database accepts: the store is
\* insert-only and two writes under one key are both taken
TableInsert(table, row) == Append(table, row)

\* the write as an upsert on the url: a row for the same url is replaced
EdgeInsertSettle_Upsert ==
  /\ ePc = "insert"
  /\ eInsert' = None
  /\ \/ EdgeCatch /\ UNCHANGED <<proxy_cache, eInserted>>
     \/ /\ proxy_cache' =
             Append(SelectSeq(proxy_cache,
                              LAMBDA row : row.cache_key[2] # eInsert[1].cache_key[2]),
                    eInsert[1])
        /\ eInserted' = eInserted + 1
        /\ ePc' = "done"
        /\ UNCHANGED eOut
  /\ UNCHANGED <<eCaller, eReq, eConfig, eOriginReq, eFetchLog, eResp, eBuffer,
                 eTransformIn, now, envVars, cfgVars, parked, swVars, events>>

\* await sql`INSERT INTO proxy_cache ...` settles (242-257): the statement
\* is rejected (the database fails, or it refuses the statement, whose text
\* holds the TTL parameter inside the quoted literal of line 246) and control
\* enters the catch block, or the row is appended
EdgeInsertSettle ==
  /\ ePc = "insert"
  /\ eInsert' = None
  /\ \/ EdgeCatch /\ UNCHANGED <<proxy_cache, eInserted>>
     \/ /\ proxy_cache' = TableInsert(proxy_cache, eInsert[1])
        /\ eInserted' = eInserted + 1
        /\ ePc' = "done"
        /\ UNCHANGED eOut
  /\ UNCHANGED <<eCaller, eReq, eConfig, eOriginReq, eFetchLog, eResp, eBuffer,
                 eTransformIn, now, envVars, cfgVars, parked, swVars, events>>

(* ------------------------------------------------------------------ *)
(* The service worker (sw.js)                                          *)
(* ------------------------------------------------------------------ *)

\* the exemption test without the test for a "." in the path
Exempt_NoDotTest(u) ==
  \/ UrlProtocol(u) \in {"chrome-extension:", "data:", "blob:"}
  \/ UrlHostname(u) = "localhost"
  \/ StartsWith(UrlPathname(u), "/api/")
  \/ StartsWith(UrlPathname(u), "/_next/")

\* the fetch listener's exemption test (39-53)
Exempt(u) ==
  \/ UrlProtocol(u) \in {"chrome-extension:", "data:", "blob:"}
  \/ UrlHostname(u) = "localhost"
  \/ StartsWith(UrlPathname(u), "/api/")
  \/ StartsWith(UrlPathname(u), "/_next/")
  \/ Includes(UrlPathname(u), ".")

\* response.ok
Ok(status) == status >= 200 /\ status <= 299

\* new Response(body, {status}) with a body that is not null throws: a
\* RangeError outside 200..599, a TypeError for a null-body status
NullBodyStatuses == {101, 103, 204, 205, 304}
NewResponseThrows(status) ==
  status < 200 \/ status > 599 \/ status \in NullBodyStatuses

\* the Response built from the edge function's JSON (92-99)
ProxiedResponse(responseData) ==
  [status  |-> responseData.status,
   headers |-> HeaderSet(responseData.headers, "content-type", responseData.contentType),
   body    |-> responseData.content]

\* Cache.put(request, response) rejects without storing anything
CachePutRejects(put) ==
  \/ put.method # "GET"
  \/ ToLowerCase(UrlScheme(put.url)) \notin SpecialSchemes
  \/ put.response.status = 206

\* caches.match(request): what a lookup that does not fail resolves with
CacheMatch(cache, request) ==
  IF request.method = "GET" /\ request.url \in DOMAIN cache
    THEN Some(cache[request.url])
    ELSE None

\* the 503 placeholder (120-126)
Placeholder ==
  [status  |-> 503,
   headers |-> [n \in {"Content-Type"} |-> "text/plain"],
   body    |-> "Proxy temporarily unavailable"]

SwReturn(kind, response) ==
  /\ swPc' = "done"
  /\ swResult' = [kind |-> kind, response |-> response]

\* control enters the catch block: caches.match(request) is called (109-113)
SwCatch ==
  /\ swPc' = "match"
  /\ swLog' = swLog \cup {"failed", "match"}
  /\ UNCHANGED swResult

NewEvent ==
  /\ events < MaxEvents
  /\ ePc \in {"idle", "done"}
  /\ swPc \in {"idle", "done"}
  /\ cPc \in {"idle", "done"}

\* a caller POSTs to /api/proxy without the service worker
DirectPost ==
  /\ NewEvent
  /\ events' = events + 1
  /\ \E body \in DirectBodies : EdgeBegin("direct", body)
  /\ swPc' = "idle"
  /\ swReq' = NoPageRequest
  /\ swResult' = NoResult
  /\ swLog' = {}
  /\ swHeld' = None
  /\ UNCHANGED <<clientCache, pendingPuts, envVars, cfgVars, parked>>

\* the fetch listener (38-60) and handleProxyRequest up to its fetch (62-82)
SwFetchEvent ==
  /\ NewEvent
  /\ events' = events + 1
  /\ swHeld' = None
  /\ \E request \in pages :
       /\ swReq' = request
       /\ IF Exempt(request.url)
            THEN /\ swPc' = "done"
                 /\ swResult' = [kind |-> "passthrough", response |-> NoResponse]
                 /\ swLog' = {}
                 /\ ePc' = "idle"
                 /\ eCaller' = "direct"
                 /\ eReq' = NoRequest
                 /\ eConfig' = None
                 /\ eFetchLog' = << >>
                 /\ eResp' = None
                 /\ eBuffer' = None
                 /\ eTransformIn' = None
                 /\ eOut' = NoOut
                 /\ eInserted' = 0
                 /\ now' = now + 1
                 /\ UNCHANGED <<eOriginReq, eInsert, proxy_cache>>
            ELSE /\ swPc' = "forwarding"
                 /\ swResult' = NoResult
                 /\ swLog' = {"forward"}
                 /\ EdgeBegin("sw", [malformed |-> FALSE,
                                     url       |-> request.url,
                                     method    |-> request.method,
                                     headers   |-> request.headers,
                                     body      |-> IF request.method # "GET"
                                                     THEN request.body ELSE Null])
  /\ UNCHANGED <<clientCache, pendingPuts, envVars, cfgVars, parked>>

\* await fetch(proxyRequest) settles, then up to the next await (82-107)
SwForwardSettle ==
  /\ swPc = "forwarding"
  /\ ePc = "done"
  /\ eCaller = "sw"
  /\ \/ SwCatch
     \/ /\ ~Ok(eOut.status)
        /\ swPc' = "match"
        /\ swLog' = swLog \cup {"answered", "failed", "match"}
        /\ UNCHANGED swResult
     \/ /\ Ok(eOut.status)
        /\ LET responseData == eOut.json
           IN  IF NewResponseThrows(responseData.status) THEN
                 /\ swPc' = "match"
                 /\ swLog' = swLog \cup {"answered", "ok", "failed", "match"}
                 /\ UNCHANGED swResult
               ELSE IF responseData.cacheable THEN
                 /\ swPc' = "open"
                 /\ swLog' = swLog \cup {"answered", "ok"}
                 /\ UNCHANGED swResult
               ELSE
                 /\ SwReturn("fresh", ProxiedResponse(responseData))
                 /\ swLog' = swLog \cup {"answered", "ok"}
  /\ UNCHANGED <<swReq, swHeld, clientCache, pendingPuts, edgeVars, envVars, cfgVars, parked, events>>

\* await caches.open(CACHE_NAME) settles; cache.put is called and not awaited
\* (103-107)
SwOpenSettle ==
  /\ swPc = "open"
  /\ \/ /\ swPc' = "match"
        /\ swLog' = swLog \cup {"failed", "match"}
        /\ UNCHANGED <<swResult, pendingPuts>>
     \/ /\ pendingPuts' = pendingPuts \cup
             {[url |-> swReq.url, method |-> swReq.method,
               response |-> ProxiedResponse(eOut.json)]}
        /\ swLog' = swLog \cup {"put"}
        /\ SwReturn("fresh", ProxiedResponse(eOut.json))
  /\ UNCHANGED <<swReq, swHeld, clientCache, edgeVars, envVars, cfgVars, parked, events>>

\* await caches.match(request) settles (113-127)
SwMatchSettle ==
  /\ swPc = "match"
  /\ swHeld' = CacheMatch(clientCache, swReq)
  /\ \/ SwReturn("rejected", NoResponse)
     \/ LET cachedResponse == CacheMatch(clientCache, swReq)
        IN  IF cachedResponse # None
              THEN SwReturn("cached", cachedResponse[1])
              ELSE SwReturn("placeholder", Placeholder)
  /\ UNCHANGED <<swReq, swLog, clientCache, pendingPuts, edgeVars, envVars, cfgVars, parked, events>>

\* a cache.put settles: the entry for the request is written, or nothing is
CachePutSettle ==
  /\ \E put \in pendingPuts :
       /\ pendingPuts' = pendingPuts \ {put}
       /\ \/ UNCHANGED clientCache
          \/ /\ ~CachePutRejects(put)
             /\ clientCache' = [u \in (DOMAIN clientCache) \cup {put.url} |->
                                  IF u = put.url THEN put.response ELSE clientCache[u]]
  /\ UNCHANGED <<swPc, swReq, swResult, swLog, swHeld, edgeVars, envVars, cfgVars, parked, events>>

Next ==
  \/ DirectPost
  \/ SwFetchEvent
  \/ EdgeLoadConfig
  \/ EdgeParseAndFetch
  \/ EdgeFetchSettle
  \/ EdgeReadSettle
  \/ EdgeInsertSettle
  \/ SwForwardSettle
  \/ SwOpenSettle
  \/ SwMatchSettle
  \/ CachePutSettle

Spec == Init /\ [][Next]_vars

(* ------------------------------------------------------------------ *)
(* One run of the proxy handler against an origin that may answer      *)
(* with any status and any header combination                          *)
(* ------------------------------------------------------------------ *)

InitAnswer ==
  /\ edgeConfig \in {None} \cup {Some(c) : c \in StoredConfigs}
  /\ origin = AllAnswers
  /\ ePc = "config"
  /\ eCaller = "direct"
  /\ eReq \in DirectBodies
  /\ eConfig = None
  /\ eOriginReq = None
  /\ eFetchLog = << >>
  /\ eResp = None
  /\ eBuffer = None
  /\ eTransformIn = None
  /\ eOut = NoOut
  /\ eInsert = None
  /\ eInserted = 0
  /\ proxy_cache = << >>
  /\ now = 1
  /\ swPc = "idle"
  /\ swReq = NoPageRequest
  /\ swResult = NoResult
  /\ swLog = {}
  /\ swHeld = None
  /\ clientCache = [u \in {AppRoot} |-> PrecachedShell]
  /\ pendingPuts = {}
  /\ events = 1
  /\ pages = PageRequests
  /\ parked = None
  /\ ConfigRouteIdle

NextAnswer ==
  \/ EdgeLoadConfig
  \/ EdgeParseAndFetch
  \/ EdgeFetchSettle
  \/ EdgeReadSettle
  \/ EdgeInsertSettle

SpecAnswer == InitAnswer /\ [][NextAnswer]_vars

(* ------------------------------------------------------------------ *)
(* One run of the proxy handler under configurations with transform    *)
(* rules, for requests with header names in any letter case            *)
(* ------------------------------------------------------------------ *)

InitRewrite ==
  /\ edgeConfig \in {Some(c) : c \in RuleConfigs}
  /\ origin = RewriteAnswers
  /\ ePc = "config"
  /\ eCaller = "direct"
  /\ eReq \in RewriteBodies
  /\ eConfig = None
  /\ eOriginReq = None
  /\ eFetchLog = << >>
  /\ eResp = None
  /\ eBuffer = None
  /\ eTransformIn = None
  /\ eOut = NoOut
  /\ eInsert = None
  /\ eInserted = 0
  /\ proxy_cache = << >>
  /\ now = 1
  /\ swPc = "idle"
  /\ swReq = NoPageRequest
  /\ swResult = NoResult
  /\ swLog = {}
  /\ swHeld = None
  /\ clientCache = [u \in {AppRoot} |-> PrecachedShell]
  /\ pendingPuts = {}
  /\ events = 1
  /\ pages = PageRequests
  /\ parked = None
  /\ ConfigRouteIdle

SpecRewrite == InitRewrite /\ [][NextAnswer]_vars

(* ------------------------------------------------------------------ *)
(* The proxy handler: GET (route.ts 270-287)                           *)
(* ------------------------------------------------------------------ *)

\* what request.nextUrl.searchParams.get('url') may give: null without the
\* parameter, "" for "?url="
GetUrls == {Null, "", NewsUrl, BlockedUrl, "not a url"}

\* JSON.stringify({ url }) as POST would parse it (281)
GetBody(url) == DirectBody(FALSE, url, Null, EmptyHeaders, Null)

\* the answer of the runtime when an exception leaves a route handler: status
\* 500 and no JSON error object
Unhandled == [status |-> 500, json |-> [error |-> Null]]

\* GET returns, or an exception leaves it, before POST is called
GetReturn(url, out) ==
  /\ ePc' = "done"
  /\ eCaller' = "get"
  /\ eReq' = GetBody(url)
  /\ eOut' = out
  /\ eConfig' = None
  /\ eOriginReq' = None
  /\ eFetchLog' = << >>
  /\ eResp' = None
  /\ eBuffer' = None
  /\ eTransformIn' = None
  /\ eInsert' = None
  /\ eInserted' = 0
  /\ now' = now + 1
  /\ UNCHANGED proxy_cache

\* GET /api/proxy?url=... (270-287); eReq records the body GET builds
DirectGet ==
  /\ NewEvent
  /\ events' = events + 1
  /\ \E url \in GetUrls :
       IF url = Null \/ url = "" THEN
         GetReturn(url, ErrorOut(400, "URL parameter is required"))
       ELSE IF NewRequestThrows("/api/proxy", "POST", Null) THEN
         GetReturn(url, Unhandled)
       ELSE
         EdgeBegin("get", GetBody(url))
  /\ swPc' = "idle"
  /\ swReq' = NoPageRequest
  /\ swResult' = NoResult
  /\ swLog' = {}
  /\ swHeld' = None
  /\ UNCHANGED <<clientCache, pendingPuts, envVars, cfgVars, parked>>

NextGet ==
  \/ DirectGet
  \/ DirectPost
  \/ EdgeLoadConfig
  \/ EdgeParseAndFetch
  \/ EdgeFetchSettle
  \/ EdgeReadSettle
  \/ EdgeInsertSettle

\* callers that use the two entry points of /api/proxy directly
SpecGet == Init /\ [][NextGet]_vars

(* ------------------------------------------------------------------ *)
(* The service worker under requests of every exempt and non-exempt    *)
(* shape                                                               *)
(* ------------------------------------------------------------------ *)

\* urls of the schemes, hosts and paths the fetch listener tells apart
InterceptedUrls ==
  {NewsUrl,
   AssetUrl,
   "chrome-extension://abcdef/page",
   "data:text/plain,hi",
   "blob:https://app.edgeflow.dev/1a2b",
   "http://LOCALHOST:3000/page",
   "https://app.edgeflow.dev/api/proxy",
   "https://app.edgeflow.dev/_next/static",
   "https://app.edgeflow.dev/api",
   "https://news.example.com/search?v=1.2",
   "https://localhost.example/docs/api/"}

InterceptedRequests ==
  {[url |-> u, method |-> "GET", headers |-> EmptyHeaders, body |-> Null] :
      u \in InterceptedUrls}

\* a status line may carry any three digits; fetch hands the number on as
\* response.status
NonStandardStatus == 999

InterceptAnswers ==
  {OriginResponse(200, "text/html", Null, UnderCapBody),
   OriginResponse(404, "text/html", Null, UnderCapBody),
   OriginResponse(NonStandardStatus, "text/html", Null, UnderCapBody)}

InitIntercept ==
  /\ edgeConfig = None
  /\ origin = InterceptAnswers
  /\ ePc = "idle"
  /\ eCaller = "direct"
  /\ eReq = NoRequest
  /\ eConfig = None
  /\ eOriginReq = None
  /\ eFetchLog = << >>
  /\ eResp = None
  /\ eBuffer = None
  /\ eTransformIn = None
  /\ eOut = NoOut
  /\ eInsert = None
  /\ eInserted = 0
  /\ proxy_cache = << >>
  /\ now = 0
  /\ swPc = "idle"
  /\ swReq = NoPageRequest
  /\ swResult = NoResult
  /\ swLog = {}
  /\ swHeld = None
  /\ clientCache = [u \in {AppRoot} |-> PrecachedShell]
  /\ pendingPuts = {}
  /\ events = 0
  /\ pages = InterceptedRequests
  /\ parked = None
  /\ ConfigRouteIdle

NextIntercept ==
  \/ SwFetchEvent
  \/ EdgeLoadConfig
  \/ EdgeParseAndFetch
  \/ EdgeFetchSettle
  \/ EdgeReadSettle
  \/ EdgeInsertSettle
  \/ SwForwardSettle
  \/ SwOpenSettle
  \/ SwMatchSettle
  \/ CachePutSettle

SpecIntercept == InitIntercept /\ [][NextIntercept]_vars

(* ------------------------------------------------------------------ *)
(* The control plane: POST /api/config (config/route.ts 83-167)        *)
(* ------------------------------------------------------------------ *)

\* a JSON value of an update, with what typeof and Array.isArray say of it
Json(type, value) == [type |-> type, value |-> value]

\* a request body that parses to an object with these entries
UpdateObject(entries) == [kind |-> "object", entries |-> entries]

\* a request body that parses to an array: typeof says "object" of it, and
\* the spread of 102 copies its elements under their indices
UpdateArray(elements) ==
  [kind |-> "array", entries |-> [k \in {"0"} |-> Json("string", elements[1])]]

\* the bodies POST /api/config may be sent: text that is not JSON, JSON that
\* is not an object, and objects with well-typed and ill-typed fields
UpdateBodies ==
  <<[kind |-> "malformed", entries |-> << >>],
    [kind |-> "null", entries |-> << >>],
    [kind |-> "string", entries |-> << >>],
    UpdateObject(<< >>),
    UpdateArray(<<"x">>),
    UpdateObject([k \in {"enabled"} |-> Json("boolean", FALSE)]),
    UpdateObject([k \in {"blockedDomains"} |-> Json("array", <<"example.com">>)]),
    UpdateObject([k \in {"cacheTTL"} |-> Json("number", 120)]),
    UpdateObject([k \in {"enabled"} |-> Json("string", "no")]),
    UpdateObject([k \in {"allowedDomains"} |-> Json("string", "example.com")])>>

\* what the validation of 105-110 requires of each field
FieldTypes ==
  [enabled          |-> "boolean",
   cacheTTL         |-> "number",
   maxContentLength |-> "number",
   allowedDomains   |-> "array",
   blockedDomains   |-> "array",
   transformRules   |-> "array"]

\* { ...currentConfig, ...updates } (102)
Merge(currentConfig, entries) ==
  [k \in (DOMAIN currentConfig) \cup (DOMAIN entries) |->
     IF k \in DOMAIN entries THEN entries[k].value ELSE currentConfig[k]]

\* a validation that tests the first field only
MergedValid_BooleanOnly(entries) ==
  "enabled" \in DOMAIN entries => entries["enabled"].type = "boolean"

\* the validation of the merged configuration (105-110); the fields the
\* update leaves alone keep the types of the current configuration
MergedValid(entries) ==
  \A k \in DOMAIN FieldTypes :
    k \in DOMAIN entries => entries[k].type = FieldTypes[k]

ConfigReturn(out) ==
  /\ cPc' = "done"
  /\ cOut' = out

\* the catch block (136-143)
ConfigCatch == ConfigReturn(ErrorOut(500, "Failed to update configuration"))

\* a caller POSTs to /api/config
ConfigPost ==
  /\ NewEvent
  /\ events' = events + 1
  /\ \E i \in 1..Len(UpdateBodies) : cReq' = UpdateBodies[i]
  /\ cPc' = "json"
  /\ cNew' = None
  /\ cOut' = NoOut
  /\ cLog' = "none"
  /\ UNCHANGED <<gOut, proxy_config, proxy_logs, logVars, envVars, edgeVars, swVars, parked>>

\* await request.json() settles, then the test of the parsed value (85-93)
ConfigParseSettle ==
  /\ cPc = "json"
  /\ IF cReq.kind = "malformed" THEN ConfigCatch
     ELSE IF cReq.kind \notin {"object", "array"}
       THEN ConfigReturn(ErrorOut(400, "Invalid configuration data"))
     ELSE cPc' = "get" /\ UNCHANGED cOut
  /\ UNCHANGED <<cReq, cNew, cLog, gOut, proxy_config, proxy_logs,
                 logVars, envVars, edgeVars, swVars, parked, events>>

\* await get('proxy-config') settles, then the merge and its validation
\* (96-115)
ConfigGetSettle ==
  /\ cPc = "get"
  /\ \/ ConfigCatch /\ UNCHANGED cNew
     \/ IF MergedValid(cReq.entries)
          THEN /\ cNew' = Some(Merge(ConfigOf(edgeConfig), cReq.entries))
               /\ cPc' = "upsert"
               /\ UNCHANGED cOut
          ELSE /\ cNew' = Some(Merge(ConfigOf(edgeConfig), cReq.entries))
               /\ ConfigReturn(ErrorOut(400, "Invalid configuration structure"))
  /\ UNCHANGED <<cReq, cLog, gOut, proxy_config, proxy_logs,
                 logVars, envVars, edgeVars, swVars, parked, events>>

\* await sql`INSERT INTO proxy_config ... ON CONFLICT (id) DO UPDATE`
\* settles (118-122); logActivity is called (125)
ConfigUpsertSettle ==
  /\ cPc = "upsert"
  /\ \/ ConfigCatch /\ UNCHANGED proxy_config
     \/ /\ proxy_config' = cNew
        /\ cPc' = "log"
        /\ UNCHANGED cOut
  /\ UNCHANGED <<cReq, cNew, cLog, gOut, proxy_logs, logVars, envVars, edgeVars, swVars, parked,
                 events>>

\* the success answer (130-134)
ConfigSuccess ==
  [status |-> 200, json |-> [success |-> TRUE, config |-> cNew[1], timestamp |-> now]]

\* the row logActivity inserts (149-159)
LogRow ==
  [timestamp |-> now, level |-> "info", message |-> "Configuration updated",
   metadata |-> [admin |-> TRUE, changes |-> DOMAIN cReq.entries]]

\* logActivity with no try block of its own: a rejected INSERT reaches the
\* catch block of POST
ConfigLogSettle_Throws ==
  /\ cPc = "log"
  /\ \/ /\ cLog' = "failed"
        /\ ConfigCatch
        /\ UNCHANGED proxy_logs
     \/ /\ cLog' = "stored"
        /\ proxy_logs' = Append(proxy_logs, LogRow)
        /\ ConfigReturn(ConfigSuccess)
  /\ UNCHANGED <<cReq, cNew, gOut, proxy_config, logVars, envVars, edgeVars, swVars, parked, events>>

\* await logActivity(...) settles (125-134, 147-167): its INSERT into
\* proxy_logs is rejected and the catch block of logActivity reports it to
\* the console, or the row is stored; POST returns its success answer
ConfigLogSettle ==
  /\ cPc = "log"
  /\ \/ cLog' = "failed" /\ UNCHANGED proxy_logs
     \/ cLog' = "stored" /\ proxy_logs' = Append(proxy_logs, LogRow)
  /\ ConfigReturn(ConfigSuccess)
  /\ UNCHANGED <<cReq, cNew, gOut, proxy_config, logVars, envVars, edgeVars, swVars, parked, events>>

\* the success answer of GET /api/config (66-70); the row's config column
\* holds the JSON text POST stored, which parses back to the same fields
GetSuccess(config) ==
  [status |-> 200, json |-> [success |-> TRUE, config |-> config, timestamp |-> now]]

\* GET /api/config (42-80): the row of proxy_config when the SELECT finds
\* one; the Edge Config item, or the default, when there is no row or the
\* SELECT is rejected; 500 when get('proxy-config') is rejected too
ConfigGet ==
  /\ ePc \in {"idle", "done"}
  /\ swPc \in {"idle", "done"}
  /\ cPc \in {"idle", "done"}
  /\ \E selectRejects \in BOOLEAN, getRejects \in BOOLEAN :
       gOut' = IF ~selectRejects /\ proxy_config # None
                 THEN GetSuccess(proxy_config[1])
               ELSE IF getRejects
                 THEN ErrorOut(500, "Failed to retrieve configuration")
               ELSE GetSuccess(ConfigOf(edgeConfig))
  /\ UNCHANGED <<cPc, cReq, cNew, cOut, cLog, proxy_config, proxy_logs,
                 logVars, envVars, edgeVars, swVars, parked, events>>

InitConfig ==
  /\ edgeConfig \in {None, Some(StoredConfig(TRUE, AllowList, << >>, << >>))}
  /\ origin = InterceptAnswers
  /\ ePc = "idle"
  /\ eCaller = "direct"
  /\ eReq = NoRequest
  /\ eConfig = None
  /\ eOriginReq = None
  /\ eFetchLog = << >>
  /\ eResp = None
  /\ eBuffer = None
  /\ eTransformIn = None
  /\ eOut = NoOut
  /\ eInsert = None
  /\ eInserted = 0
  /\ proxy_cache = << >>
  /\ now = 0
  /\ swPc = "idle"
  /\ swReq = NoPageRequest
  /\ swResult = NoResult
  /\ swLog = {}
  /\ swHeld = None
  /\ clientCache = [u \in {AppRoot} |-> PrecachedShell]
  /\ pendingPuts = {}
  /\ events = 0
  /\ pages = PageRequests
  /\ parked = None
  /\ ConfigRouteIdle

NextConfig ==
  \/ ConfigPost
  \/ ConfigParseSettle
  \/ ConfigGetSettle
  \/ ConfigUpsertSettle
  \/ ConfigLogSettle
  \/ DirectPost
  \/ EdgeLoadConfig
  \/ EdgeParseAndFetch
  \/ EdgeFetchSettle
  \/ EdgeReadSettle
  \/ EdgeInsertSettle

\* the control plane and the proxy, called one after the other
SpecConfig == InitConfig /\ [][NextConfig]_vars

NextUpdates ==
  \/ ConfigPost
  \/ ConfigGet
  \/ ConfigParseSettle
  \/ ConfigGetSettle
  \/ ConfigUpsertSettle
  \/ ConfigLogSettle

\* the control plane by itself: updates are POSTed one after the other and
\* the configuration is read with GET in between
SpecUpdates == InitConfig /\ [][NextUpdates]_vars

(* ------------------------------------------------------------------ *)
(* The activity log: GET /api/logs (logs/route.ts 20-100)              *)
(* ------------------------------------------------------------------ *)

\* a row of proxy_logs; POST /api/logs stores the timestamp its caller
\* sends when there is one, so rows are not stored in timestamp order
LogEntry(timestamp, level) ==
  [timestamp |-> timestamp, level |-> level, message |-> "m"]

\* the contents of proxy_logs a GET may find; timestamps are distinct
LogTables ==
  {<< >>,
   <<LogEntry(1, "info")>>,
   <<LogEntry(2, "info"), LogEntry(1, "error"), LogEntry(3, "info")>>,
   <<LogEntry(2, "info"), LogEntry(4, "info"), LogEntry(1, "error"), LogEntry(3, "info")>>}

\* the query strings GET /api/logs may be called with; a date is absent or
\* names an instant on the scale of the rows' timestamps
LogsRequests ==
  [level     : {Null, "info", "error"},
   limit     : {Null, "1", "2", "2000", "abc"},
   offset    : {Null, "0", "1", "-1"},
   startDate : {None, Some(2)},
   endDate   : {None, Some(3)}]

\* parseInt(string): an optional sign and the leading decimal digits; NaN
\* (None) when there is no digit
DigitValue(c) == CHOOSE d \in 0..9 : CharAt("0123456789", d + 1) = c
IsDigit(c) == \E d \in 0..9 : CharAt("0123456789", d + 1) = c
RECURSIVE LeadingDigits(_, _)
LeadingDigits(str, acc) ==
  IF Len(str) > 0 /\ IsDigit(CharAt(str, 1))
    THEN LeadingDigits(From(str, 2), 10 * acc + DigitValue(CharAt(str, 1)))
    ELSE acc
parseInt(str) ==
  LET negative == Len(str) > 0 /\ CharAt(str, 1) = "-"
      unsigned == IF Len(str) > 0 /\ CharAt(str, 1) \in {"-", "+"} THEN From(str, 2) ELSE str
  IN  IF Len(unsigned) = 0 \/ ~IsDigit(CharAt(unsigned, 1)) THEN None
      ELSE Some((IF negative THEN -1 ELSE 1) * LeadingDigits(unsigned, 0))

\* Math.min(parseInt(searchParams.get('limit') || '100'), 1000) (24); NaN
\* stays NaN
LimitOf(req) ==
  LET parsed == parseInt(IF req.limit \in {Null, ""} THEN "100" ELSE req.limit)
  IN  IF parsed = None THEN None
      ELSE Some(IF parsed[1] < 1000 THEN parsed[1] ELSE 1000)

\* parseInt(searchParams.get('offset') || '0') (25)
OffsetOf(req) == parseInt(IF req.offset \in {Null, ""} THEN "0" ELSE req.offset)

\* the WHERE clause built at 30-50, applied to a row
WhereClause(req, row) ==
  /\ (req.level \notin {Null, ""}) => row.level = req.level
  /\ req.startDate # None => row.timestamp >= req.startDate[1]
  /\ req.endDate # None => row.timestamp <= req.endDate[1]

\* ORDER BY timestamp DESC
RECURSIVE OrderByTimestampDesc(_)
OrderByTimestampDesc(rows) ==
  IF Len(rows) = 0 THEN << >>
  ELSE LET i == CHOOSE j \in 1..Len(rows) :
                  \A k \in 1..Len(rows) : rows[k].timestamp <= rows[j].timestamp
       IN  <<rows[i]>> \o OrderByTimestampDesc(SubSeq(rows, 1, i - 1)
                                                 \o SubSeq(rows, i + 1, Len(rows)))

\* LIMIT l OFFSET o
LimitOffset(rows, l, o) ==
  SubSeq(rows, o + 1, IF o + l < Len(rows) THEN o + l ELSE Len(rows))

\* the statement of 66-74 with the parameters of 76: the array ends with
\* limit, offset; OFFSET reads $paramIndex, the first of the two, and LIMIT
\* reads $(paramIndex + 1), the second
LogsQuery(table, req, limit, offset) ==
  LET offsetParam == limit
      limitParam  == offset
  IN  LimitOffset(OrderByTimestampDesc(SelectSeq(table, LAMBDA row : WhereClause(req, row))),
                  limitParam, offsetParam)

\* PostgreSQL refuses the statement: a LIMIT or OFFSET that is NaN or negative
LogsQueryRefused(limit, offset) ==
  \/ limit = None \/ offset = None
  \/ limit[1] < 0 \/ offset[1] < 0

LogsReturn(out) ==
  /\ lPc' = "done"
  /\ lOut' = out

\* the catch block (92-99)
LogsCatch == LogsReturn(ErrorOut(500, "Failed to retrieve logs"))

\* a caller GETs /api/logs: the parameters are read and the count query is
\* sent (20-55)
LogsGet ==
  /\ lPc \in {"idle", "done"}
  /\ \E req \in LogsRequests : lReq' = req
  /\ lPc' = "count"
  /\ lTotal' = 0
  /\ lOut' = NoOut
  /\ UNCHANGED <<cPc, cReq, cNew, cOut, cLog, gOut, proxy_config, proxy_logs,
                 envVars, edgeVars, swVars, parked, events>>

\* await sql.query(countQuery, ...) settles (54-66): no matching row is
\* answered at once, otherwise the page query is sent
LogsCountSettle ==
  /\ lPc = "count"
  /\ \/ LogsCatch /\ UNCHANGED lTotal
     \/ \E total \in {Len(SelectSeq(proxy_logs, LAMBDA row : WhereClause(lReq, row)))} :
          /\ lTotal' = total
          /\ IF total = 0
               THEN LogsReturn([status |-> 200,
                                json |-> [success |-> TRUE, logs |-> << >>, total |-> 0,
                                          hasMore |-> FALSE]])
               ELSE lPc' = "page" /\ UNCHANGED lOut
  /\ UNCHANGED <<lReq, cPc, cReq, cNew, cOut, cLog, gOut, proxy_config, proxy_logs,
                 envVars, edgeVars, swVars, parked, events>>

\* await sql.query(logsQuery, ...) settles (76-90); a NaN in the answer is
\* serialised as null
LogsPageSettle ==
  /\ lPc = "page"
  /\ \E limit \in {LimitOf(lReq)}, offset \in {OffsetOf(lReq)} :
       \/ LogsCatch
       \/ /\ ~LogsQueryRefused(limit, offset)
          /\ LogsReturn([status |-> 200,
                         json |-> [success |-> TRUE,
                                   logs    |-> LogsQuery(proxy_logs, lReq, limit[1], offset[1]),
                                   total   |-> lTotal,
                                   hasMore |-> offset[1] + limit[1] < lTotal,
                                   limit   |-> limit[1],
                                   offset  |-> offset[1]]])
  /\ UNCHANGED <<lReq, lTotal, cPc, cReq, cNew, cOut, cLog, gOut, proxy_config, proxy_logs,
                 envVars, edgeVars, swVars, parked, events>>

InitLogs ==
  /\ edgeConfig = None
  /\ origin = InterceptAnswers
  /\ ePc = "idle"
  /\ eCaller = "direct"
  /\ eReq = NoRequest
  /\ eConfig = None
  /\ eOriginReq = None
  /\ eFetchLog = << >>
  /\ eResp = None
  /\ eBuffer = None
  /\ eTransformIn = None
  /\ eOut = NoOut
  /\ eInsert = None
  /\ eInserted = 0
  /\ proxy_cache = << >>
  /\ now = 0
  /\ swPc = "idle"
  /\ swReq = NoPageRequest
  /\ swResult = NoResult
  /\ swLog = {}
  /\ swHeld = None
  /\ clientCache = [u \in {AppRoot} |-> PrecachedShell]
  /\ pendingPuts = {}
  /\ events = 0
  /\ pages = PageRequests
  /\ parked = None
  /\ cPc = "idle"
  /\ cReq = NoUpdate
  /\ cNew = None
  /\ cOut = NoOut
  /\ cLog = "none"
  /\ gOut = NoOut
  /\ proxy_config = None
  /\ proxy_logs \in LogTables
  /\ LogsRouteIdle

NextLogs ==
  \/ LogsGet
  \/ LogsCountSettle
  \/ LogsPageSettle

\* GET /api/logs called again and again on a table that holds some rows
SpecLogs == InitLogs /\ [][NextLogs]_vars

(* ------------------------------------------------------------------ *)
(* Two runs of the proxy handler at once: everything POST works on is  *)
(* local to the call (route.ts 130-267), and the runtime moves from    *)
(* one call to the other at their awaits                               *)
(* ------------------------------------------------------------------ *)

\* the bodies three callers send: two ask for the same url
PairRequest ==
  [caller1 |-> DirectBody(FALSE, NewsUrl, "GET", EmptyHeaders, Null),
   caller2 |-> DirectBody(FALSE, NewsUrl, "GET", CookieHeaders, Null),
   caller3 |-> DirectBody(FALSE, BlockedUrl, Null, EmptyHeaders, Null)]

\* the locals of a call that has just begun
FreshRun(caller) ==
  [ePc |-> "config", eCaller |-> caller, eReq |-> PairRequest[caller], eConfig |-> None,
   eOriginReq |-> None, eFetchLog |-> << >>, eResp |-> None, eBuffer |-> None,
   eTransformIn |-> None, eOut |-> NoOut, eInsert |-> None, eInserted |-> 0]

\* the locals of the call that is running
RunningRun ==
  [ePc |-> ePc, eCaller |-> eCaller, eReq |-> eReq, eConfig |-> eConfig,
   eOriginReq |-> eOriginReq, eFetchLog |-> eFetchLog, eResp |-> eResp,
   eBuffer |-> eBuffer, eTransformIn |-> eTransformIn, eOut |-> eOut,
   eInsert |-> eInsert, eInserted |-> eInserted]

\* the switch with the parsed body kept in variables of the module instead
\* of the call: the other call goes on with the body of this one
Switch_SharedBody ==
  /\ parked # None
  /\ parked[1].ePc # "done"
  /\ parked' = Some(RunningRun)
  /\ ePc' = parked[1].ePc
  /\ eCaller' = parked[1].eCaller
  /\ eConfig' = parked[1].eConfig
  /\ eOriginReq' = parked[1].eOriginReq
  /\ eFetchLog' = parked[1].eFetchLog
  /\ eResp' = parked[1].eResp
  /\ eBuffer' = parked[1].eBuffer
  /\ eTransformIn' = parked[1].eTransformIn
  /\ eOut' = parked[1].eOut
  /\ eInsert' = parked[1].eInsert
  /\ eInserted' = parked[1].eInserted
  /\ UNCHANGED <<eReq, proxy_cache, now, envVars, cfgVars, swVars, events>>

\* the running call is suspended at its await and the other call resumes
\* with its own locals
Switch ==
  /\ parked # None
  /\ parked[1].ePc # "done"
  /\ parked' = Some(RunningRun)
  /\ ePc' = parked[1].ePc
  /\ eCaller' = parked[1].eCaller
  /\ eReq' = parked[1].eReq
  /\ eConfig' = parked[1].eConfig
  /\ eOriginReq' = parked[1].eOriginReq
  /\ eFetchLog' = parked[1].eFetchLog
  /\ eResp' = parked[1].eResp
  /\ eBuffer' = parked[1].eBuffer
  /\ eTransformIn' = parked[1].eTransformIn
  /\ eOut' = parked[1].eOut
  /\ eInsert' = parked[1].eInsert
  /\ eInserted' = parked[1].eInserted
  /\ UNCHANGED <<proxy_cache, now, envVars, cfgVars, swVars, events>>

InitPair ==
  /\ edgeConfig \in {None, Some(StoredConfig(TRUE, << >>, BlockList, <<ContentRule>>))}
  /\ origin = InterceptAnswers
  /\ ePc = "config"
  /\ eCaller = "caller1"
  /\ eReq = PairRequest[eCaller]
  /\ eConfig = None
  /\ eOriginReq = None
  /\ eFetchLog = << >>
  /\ eResp = None
  /\ eBuffer = None
  /\ eTransformIn = None
  /\ eOut = NoOut
  /\ eInsert = None
  /\ eInserted = 0
  /\ proxy_cache = << >>
  /\ now = 1
  /\ swPc = "idle"
  /\ swReq = NoPageRequest
  /\ swResult = NoResult
  /\ swLog = {}
  /\ swHeld = None
  /\ clientCache = [u \in {AppRoot} |-> PrecachedShell]
  /\ pendingPuts = {}
  /\ events = 1
  /\ pages = PageRequests
  /\ parked \in {Some(FreshRun(caller)) : caller \in {"caller2", "caller3"}}
  /\ ConfigRouteIdle

NextPair ==
  \/ Switch
  \/ EdgeLoadConfig
  \/ EdgeParseAndFetch
  \/ EdgeFetchSettle
  \/ EdgeReadSettle
  \/ EdgeInsertSettle

\* two proxy requests that arrive in the same millisecond
SpecPair == InitPair /\ [][NextPair]_vars

(* ------------------------------------------------------------------ *)
(* Properties                                                          *)
(* ------------------------------------------------------------------ *)

\* the handler has returned
EdgeDone == ePc = "done"

\* the handler has returned for a request whose body parsed and whose url
\* is a valid URL, under a configuration it loaded
ValidUrlRun ==
  /\ EdgeDone
  /\ eConfig # None
  /\ ~eReq.malformed
  /\ UrlValid(eReq.url)

HostOf(req) == UrlHostname(req.url)

\* some entry of the list is a substring of the host
Matches(list, host) == \E k \in DOMAIN list : Includes(host, list[k])

\* C1 as stated: under every configuration, a valid url whose hostname
\* contains a blockedDomains entry is answered 403, whatever allowedDomains
\* holds.
C1_BlockedAlways403 ==
  (ValidUrlRun /\ Matches(eConfig[1].blockedDomains, HostOf(eReq)))
    => eOut.status = 403

\* C1 amended: under every configuration with enabled = true, a valid url
\* whose hostname contains a blockedDomains entry is answered 403 "Domain is
\* blocked", whatever allowedDomains holds.
C1_BlockedEnabled403 ==
  (ValidUrlRun /\ eConfig[1].enabled /\ Matches(eConfig[1].blockedDomains, HostOf(eReq)))
    => eOut = ErrorOut(403, "Domain is blocked")

\* a blocked host that also matches the allow-list has been answered 403
C1_Witness ==
  /\ ValidUrlRun
  /\ eConfig[1].enabled
  /\ Matches(eConfig[1].blockedDomains, HostOf(eReq))
  /\ Matches(eConfig[1].allowedDomains, HostOf(eReq))
  /\ eOut.status = 403

\* C2: for a valid url that reaches the domain checks, the request is rejected
\* by domain policy (403) exactly when the hostname contains a blockedDomains
\* entry, or allowedDomains is non-empty and the hostname contains none of its
\* entries; with both lists empty no valid url is rejected.
C2_PolicyRejectsIff ==
  (ValidUrlRun /\ eConfig[1].enabled) =>
    LET config  == eConfig[1]
        blocked == Matches(config.blockedDomains, HostOf(eReq))
        outside == config.allowedDomains # << >>
                     /\ ~Matches(config.allowedDomains, HostOf(eReq))
    IN  /\ (eOut.status = 403) <=> (blocked \/ outside)
        /\ (eOut = ErrorOut(403, "Domain is not allowed")) <=> (~blocked /\ outside)
        /\ (config.blockedDomains = << >> /\ config.allowedDomains = << >>)
              => eOut.status # 403

\* a host outside a non-empty allow-list, not blocked, has been rejected
C2_Witness ==
  /\ ValidUrlRun
  /\ eConfig[1].enabled
  /\ eConfig[1].allowedDomains # << >>
  /\ ~Matches(eConfig[1].blockedDomains, HostOf(eReq))
  /\ eOut = ErrorOut(403, "Domain is not allowed")

InputOrPolicyRejections ==
  {ErrorOut(400, "URL is required"), ErrorOut(400, "Invalid URL format"),
   ErrorOut(403, "Domain is blocked"), ErrorOut(403, "Domain is not allowed")}

\* C3: a handler run that ends in a missing-url, malformed-url, domain-blocked
\* or domain-not-allowed rejection has issued no origin fetch and has written
\* no server-tier cache entry.
C3_RejectedBeforeNetwork ==
  (EdgeDone /\ eOut \in InputOrPolicyRejections) =>
    /\ eFetchLog = << >>
    /\ eOriginReq = None
    /\ eInserted = 0
    /\ eInsert = None

\* each of the four rejections has been returned
C3_Witness ==
  /\ EdgeDone
  /\ eOut = ErrorOut(400, "Invalid URL format")
  /\ eFetchLog = << >>
  /\ eInserted = 0

\* handleProxyRequest has returned for a request it forwarded
SwDone == swPc = "done" /\ "forward" \in swLog

\* the forwarding call itself failed: it threw, or was answered with a
\* non-success status
ForwardingFailed == "failed" \in swLog /\ "ok" \notin swLog

\* C4: every request accepted into forwarding resolves with the fresh response,
\* a cached response or the 503 placeholder; handleProxyRequest never rejects.
C4_NeverRejects ==
  SwDone => swResult.kind \in {"fresh", "cached", "placeholder"}

\* C5: when the forwarding call fails and the cache holds an entry for the
\* request, the caller receives that entry and not the placeholder.
C5_FallbackServesCached ==
  (SwDone /\ ForwardingFailed /\ swHeld # None)
    => swResult = [kind |-> "cached", response |-> swHeld[1]]

\* C6: when the forwarding call fails and the cache holds no entry for the
\* request, the caller receives status 503 with the fixed body.
C6_FallbackPlaceholder ==
  (SwDone /\ ForwardingFailed /\ swHeld = None)
    => /\ swResult.kind = "placeholder"
       /\ swResult.response.status = 503
       /\ swResult.response.body = "Proxy temporarily unavailable"

\* C7: when the edge function answers with a non-success status, the caller
\* receives a cached response or the placeholder, never the edge function's
\* own status or body.
C7_ErrorStatusFallsBack ==
  (SwDone /\ "answered" \in swLog /\ ~Ok(eOut.status))
    => /\ swResult.kind \in {"cached", "placeholder"}
       /\ swResult.kind = "placeholder" => swResult.response = Placeholder
       /\ swResult.kind = "cached" => swResult.response = swHeld[1]

\* C8: whenever the forwarding call succeeds, the caller receives the fresh
\* response and the cache is not consulted.
C8_SuccessNeverReadsCache ==
  ("forward" \in swLog /\ "ok" \in swLog)
    => /\ "match" \notin swLog
       /\ swPc = "done"
            => swResult = [kind |-> "fresh", response |-> ProxiedResponse(eOut.json)]

\* the forwarding call succeeded with cacheable = true
CacheableSuccess == "ok" \in swLog /\ eOut.json.cacheable

\* C9: the service worker writes to the cache exactly when the forwarding call
\* succeeded with cacheable = true, and once the write has settled the cache
\* holds, under the original url, the response just delivered.
C9_WritesIffCacheable ==
  ("forward" \in swLog /\ swPc \in {"match", "done"}) =>
    /\ ("put" \in swLog) <=> CacheableSuccess
    /\ (CacheableSuccess /\ pendingPuts = {})
         => /\ swReq.url \in DOMAIN clientCache
            /\ clientCache[swReq.url] = ProxiedResponse(eOut.json)

\* the success output's flag, and the headers it was computed from
SuccessOut == EdgeDone /\ eOut.status = 200
CacheControlOf(response) == OrDefault(HeaderGet(response.headers, "cache-control"), "")
ContentTypeOf(response) == OrDefault(HeaderGet(response.headers, "content-type"), "")

\* the media type of a content-type value: what precedes the parameters
MediaType(ct) == IF Includes(ct, ";") THEN SubSeq(ct, 1, IndexOf(ct, ";") - 1) ELSE ct

EligibleResponse(response) ==
  /\ response.status < 400
  /\ \A i \in 1..Len(CacheControlOf(response)) :
        /\ ~StartsWith(From(CacheControlOf(response), i), "no-cache")
        /\ ~StartsWith(From(CacheControlOf(response), i), "no-store")
  /\ \A i \in 1..Len(ContentTypeOf(response)) :
        ~StartsWith(From(ContentTypeOf(response), i), "application/json")

\* the handler has returned for a request whose origin response was read
\* within the cap, transformed, and is eligible for caching
CacheableRun ==
  /\ EdgeDone
  /\ eResp # None
  /\ eTransformIn # None
  /\ EligibleResponse(eResp[1])

\* C11: a handler run inserts a proxy_cache row exactly when its response is
\* cacheable; the row is keyed by the original url and the write time, holds
\* the transformed content, and expires cacheTTL seconds after the write.
C11_InsertsIffCacheable ==
  EdgeDone =>
    /\ (eInserted = 1) <=> CacheableRun
    /\ eInserted \in {0, 1}
    /\ eInserted = 1 =>
          LET row == proxy_cache[Len(proxy_cache)]
          IN  /\ row.cache_key = <<"proxy", eReq.url, now>>
              /\ row.content = eOut.json.content
              /\ row.expires_at = now + eConfig[1].cacheTTL

\* a handler run has completed the INSERT and returned success
InsertCompletes == ePc = "insert" /\ ePc' = "done" /\ eOut'.status = 200

\* C12: the table only grows by appended rows: a step in which a cacheable
\* request succeeds adds exactly one row for its url and leaves every earlier
\* row as it was, and no other step changes the table; so k cacheable
\* successes for a url leave k rows for it.
C12_InsertOnly ==
  [][ IF InsertCompletes
        THEN /\ Len(proxy_cache') = Len(proxy_cache) + 1
             /\ SubSeq(proxy_cache', 1, Len(proxy_cache)) = proxy_cache
             /\ proxy_cache'[Len(proxy_cache')].cache_key[2] = eReq.url
        ELSE proxy_cache' = proxy_cache ]_vars

\* two cacheable requests for one url have left two rows for it
C12_Witness ==
  /\ Len(proxy_cache) = 2
  /\ proxy_cache[1].cache_key[2] = proxy_cache[2].cache_key[2]
  /\ proxy_cache[1].cache_key # proxy_cache[2].cache_key

\* the body read from the origin is larger than the configured cap
Oversized == eBuffer # None /\ Len(eBuffer[1]) > eConfig[1].maxContentLength

\* C13: a response whose body exceeds maxContentLength is answered 413
\* "Content too large"; its body is not passed to transformContent, no
\* success output is produced and no proxy_cache row is written for it.
C13_OversizedRejected ==
  Oversized =>
    /\ EdgeDone
    /\ eOut = ErrorOut(413, "Content too large")
    /\ eTransformIn = None
    /\ eInsert = None
    /\ eInserted = 0

\* an oversized body has been answered 413
C13_Witness ==
  /\ Oversized
  /\ eOut.status = 413
  /\ eTransformIn = None
  /\ eInserted = 0

\* C14: the bytes of an origin body held by the handler never exceed
\* maxContentLength.
C14_BufferWithinCap ==
  eBuffer # None => Len(eBuffer[1]) <= eConfig[1].maxContentLength

\* C15: a handler run whose configuration load failed still runs under a
\* configuration, the default one: every run that has returned ran under the
\* stored configuration or under DEFAULT_CONFIG.
C15_LoadFailureFallsBack ==
  EdgeDone =>
    /\ eConfig # None
    /\ edgeConfig = None => eConfig = Some(DEFAULT_CONFIG)

(* ------------------------------------------------------------------ *)
(* Transform rules, header sanitizing, fronting                        *)
(* ------------------------------------------------------------------ *)

\* the rules of one kind, in list order
RulesOfKind(rules, kind) == SelectSeq(rules, LAMBDA rule : rule.type = kind)

\* text with every occurrence of pattern, scanned left to right, replaced
RECURSIVE EveryOccurrence(_, _, _)
EveryOccurrence(text, pattern, replacement) ==
  IF text = "" THEN ""
  ELSE IF StartsWith(text, pattern)
    THEN replacement \o EveryOccurrence(From(text, Len(pattern) + 1), pattern, replacement)
    ELSE CharAt(text, 1) \o EveryOccurrence(From(text, 2), pattern, replacement)

\* the left-to-right fold: each rule works on the output of the one before
RECURSIVE FoldRules(_, _)
FoldRules(text, rules) ==
  IF rules = << >> THEN text
  ELSE FoldRules(EveryOccurrence(text, Head(rules).pattern, Head(rules).replacement),
                 Tail(rules))

\* the rules whose pattern is a regular expression
ValidRules(rules) == SelectSeq(rules, LAMBDA rule : ~RegExpThrows(rule.pattern))

\* the handler has returned for a valid url that domain policy let through
PassedPolicy ==
  /\ ValidUrlRun
  /\ eConfig[1].enabled
  /\ eOut.status # 403

\* C16: a rule with an invalid pattern is skipped and the others still apply:
\* the request is sent to the origin with the valid url rules applied, and a
\* response that was read is answered with the valid content rules applied.
C16_BadRuleSkipped ==
  PassedPolicy =>
    LET valid == ValidRules(eConfig[1].transformRules)
    IN  /\ eFetchLog # << >>
        /\ ~SomeIncluded(censoredDomains, eReq.url)
              => eFetchLog[1] = FoldRules(eReq.url, RulesOfKind(valid, "url"))
        /\ (eTransformIn # None /\ ~EligibleResponse(eResp[1]))
              => /\ eOut.status = 200
                 /\ eOut.json.content
                      = FoldRules(eTransformIn[1], RulesOfKind(valid, "content"))

\* C17: the url sent to the origin is the fold of the url rules over the
\* request's url, and the content returned is the fold of the content rules
\* over the decoded body; each rule replaces every occurrence in the output of
\* the rule before it, and rules of other kinds change nothing: the rule
\* foo -> bar alone turns 'foo foo' into 'bar bar'.
C17_RulesFold ==
  LET rules  == eConfig[1].transformRules
      urlOut == FoldRules(eReq.url, RulesOfKind(rules, "url"))
  IN  /\ (eFetchLog # << >> /\ ~SomeIncluded(censoredDomains, eReq.url))
            => eFetchLog[1] = urlOut
      /\ (eFetchLog # << >> /\ SomeIncluded(censoredDomains, eReq.url))
            => Includes(eFetchLog[1], "url=" \o encodeURIComponent(urlOut) \o "&")
      /\ SuccessOut
            => eOut.json.content = FoldRules(eTransformIn[1], RulesOfKind(rules, "content"))
      /\ ( /\ SuccessOut
           /\ eTransformIn = Some("foo foo")
           /\ RulesOfKind(rules, "content") = <<ContentRule>> )
            => eOut.json.content = "bar bar"

\* two url rules and two content rules, the second of each working on the
\* output of the first, have been applied around rules of the other kind
C17_Witness ==
  /\ SuccessOut
  /\ Len(RulesOfKind(eConfig[1].transformRules, "url")) = 2
  /\ Len(RulesOfKind(eConfig[1].transformRules, "content")) = 2
  /\ eReq.url = FooUrl
  /\ eFetchLog = <<"https://example.com/baz">>
  /\ eTransformIn = Some("foo foo")
  /\ eOut.json.content = "baz"

\* C18: whatever the letter case of the caller's header names, the request
\* sent to the origin carries no cookie, referer or origin header, a
\* user-agent of the fixed pool, and the x-forwarded-for and x-proxy-engine
\* headers.
C18_SanitizedHeaders ==
  eOriginReq # None =>
    LET sent == eOriginReq[1].headers
    IN  /\ \A n \in DOMAIN sent : ToLowerCase(n) \notin {"cookie", "referer", "origin"}
        /\ "user-agent" \in DOMAIN sent
        /\ \E a \in 1..Len(userAgents) : sent["user-agent"] = userAgents[a]
        /\ "x-forwarded-for" \in DOMAIN sent
        /\ StartsWith(sent["x-forwarded-for"], "192.168.")
        /\ "x-proxy-engine" \in DOMAIN sent
        /\ sent["x-proxy-engine"] = "edgeflow-scramjet"

\* no name of the header map is set-cookie, connection or transfer-encoding
\* in any letter case
NoHopByHop(headers) ==
  \A n \in DOMAIN headers :
    ToLowerCase(n) \notin {"set-cookie", "connection", "transfer-encoding"}

\* C19: no set-cookie, connection or transfer-encoding header of the origin
\* is in the headers of the success output, of a proxy_cache row, or of a
\* response the service worker delivers or caches.
C19_NoHopByHop ==
  /\ SuccessOut => NoHopByHop(eOut.json.headers)
  /\ eInsert # None => NoHopByHop(eInsert[1].headers)
  /\ \A k \in 1..Len(proxy_cache) : NoHopByHop(proxy_cache[k].headers)
  /\ swResult.kind \in {"fresh", "cached", "placeholder"}
        => NoHopByHop(swResult.response.headers)
  /\ \A put \in pendingPuts : NoHopByHop(put.response.headers)
  /\ \A u \in DOMAIN clientCache : NoHopByHop(clientCache[u].headers)

\* a response the origin sent with all three headers has been stored in
\* both caches and delivered by the service worker
C19_Witness ==
  /\ SwDone
  /\ swResult.kind = "fresh"
  /\ {"set-cookie", "connection", "transfer-encoding"} \subseteq DOMAIN eResp[1].headers
  /\ Len(proxy_cache) > 0
  /\ swReq.url \in DOMAIN clientCache
  /\ clientCache[swReq.url] = swResult.response

\* C20: the request goes to a front host exactly when the host of the url
\* left by the url rules matches the sensitive-domain set, and then the
\* target carries the original url, encoded, as the url query parameter.
C20_FrontingOnRewrittenHost ==
  eFetchLog # << >> =>
    LET rewritten == FoldRules(eReq.url, RulesOfKind(eConfig[1].transformRules, "url"))
        sensitive == SomeIncluded(censoredDomains, UrlHostname(rewritten))
        target    == eFetchLog[1]
        fronted   == \E f \in 1..Len(frontDomains) : UrlHostname(target) = frontDomains[f]
    IN  /\ fronted <=> sensitive
        /\ fronted => Includes(target, "?url=" \o encodeURIComponent(eReq.url) \o "&")

\* what POST answers for an origin response it has read
AnswerFor(config, req, response) ==
  LET content == IF response.body = Null THEN "" ELSE Decode(response.body)
  IN  IF response.body # Null /\ Len(response.body) >= config.maxContentLength
        THEN ErrorOut(413, "Content too large")
      ELSE IF RulesThrow(config.transformRules, "content")
        THEN ErrorOut(500, "Proxy request failed")
      ELSE [status |-> 200,
            json   |-> [content     |-> FoldRules(content,
                                          RulesOfKind(config.transformRules, "content")),
                        contentType |-> OrDefault(HeaderGet(response.headers,
                                                            "content-type"), "text/plain"),
                        status      |-> response.status,
                        headers     |-> responseHeaders(response),
                        cacheable   |-> isCacheableResponse(response)]]

\* every answer POST /api/proxy may give for a request body, run by itself
\* under a stored configuration against an origin
PostOutcomes(configData, req, answers) ==
  LET config == ConfigOf(configData)
  IN  {ErrorOut(500, "Proxy request failed")} \cup
      (IF ~config.enabled THEN {ErrorOut(503, "Proxy service is disabled")}
       ELSE IF req.malformed THEN {}
       ELSE IF req.url = Null \/ req.url = "" THEN {ErrorOut(400, "URL is required")}
       ELSE IF ~UrlValid(req.url) THEN {ErrorOut(400, "Invalid URL format")}
       ELSE IF DomainRejection(config, UrlHostname(req.url)) # ""
         THEN {ErrorOut(403, DomainRejection(config, UrlHostname(req.url)))}
       ELSE {AnswerFor(config, req, [answer EXCEPT !.headers = HeadersInit(@)]) :
               answer \in answers})

\* C21: GET /api/proxy?url=u answers as POST /api/proxy answers the body
\* {url: u}: after a GET with a url parameter the answer is one POST gives
\* for that body under the stored configuration and the origin, reached
\* through POST's own steps; without the parameter the answer is a 400.
C21_GetAnswersAsPost ==
  (EdgeDone /\ eCaller = "get") =>
    IF eReq.url = Null \/ eReq.url = ""
      THEN eOut.status = 400
      ELSE eOut \in PostOutcomes(edgeConfig, eReq, origin)

\* the origin fetch was issued and rejected: the 30 s timeout fired or the
\* network failed
UpstreamFailed == EdgeDone /\ eFetchLog # << >> /\ eResp = None

\* the answer of the catch block: what an unclassified failure is reported as
UnclassifiedFailure == ErrorOut(500, "Proxy request failed")

\* C22: every error answer of the proxy handler names its class and carries
\* the status of that class (400 url missing or invalid, 403 domain blocked
\* or not allowed, 413 too large, 503 disabled, 500 unclassified), and an
\* origin fetch that timed out or failed on the network is reported under a
\* code of its own, never as the unclassified failure.
C22_ErrorTaxonomy ==
  (EdgeDone /\ eOut.status # 200) =>
    /\ eOut.json.error \in {"URL is required", "Invalid URL format"} <=> eOut.status = 400
    /\ eOut.json.error \in {"Domain is blocked", "Domain is not allowed"}
          <=> eOut.status = 403
    /\ eOut.json.error = "Content too large" <=> eOut.status = 413
    /\ eOut.json.error = "Proxy service is disabled" <=> eOut.status = 503
    /\ eOut.status \in {400, 403, 413, 503, 500}
    /\ UpstreamFailed => eOut # UnclassifiedFailure

\* C23: a proxy POST whose body does not parse is rejected as invalid input
\* with status 400 before any origin fetch, not as an unclassified failure.
C23_MalformedBodyIs400 ==
  (EdgeDone /\ eReq.malformed /\ eConfig # None /\ eConfig[1].enabled) =>
    /\ eOut.status = 400
    /\ eFetchLog = << >>

\* C24: nothing is retried: a handler run starts only with a new client
\* event, so an intercepted request is forwarded at most once, and a handler
\* run issues at most one origin fetch, whether the fetch answers or fails.
C24_NoRetry ==
  [][/\ Len(eFetchLog') <= 1
     /\ (ePc' = "config" /\ ePc # "config") => events' = events + 1
     /\ (events' = events /\ eFetchLog # << >>) => eFetchLog' = eFetchLog]_vars

\* the origin fetch of a forwarded request failed and the service worker
\* has answered the page
C24_Witness ==
  /\ SwDone
  /\ eCaller = "sw"
  /\ UpstreamFailed
  /\ Len(eFetchLog) = 1

\* the exemption rule: one of the three schemes, the host localhost, a path
\* under /api/ or /_next/, or a path with a "." in it
ExemptionRule(u) ==
  \/ \E scheme \in {"chrome-extension:", "data:", "blob:"} :
       StartsWith(ToLowerCase(u), scheme)
  \/ UrlHostname(u) = "localhost"
  \/ \E prefix \in {"/api/", "/_next/"} : StartsWith(UrlPathname(u), prefix)
  \/ Includes(UrlPathname(u), ".")

\* C25: the exemption is decided before any network call: an exempt request
\* is passed through with no forwarding call, no handler run and no read or
\* write of the client-tier cache; every other request is forwarded to the
\* edge function with its own url.
C25_ExemptPassThrough ==
  swReq.url # Null =>
    IF ExemptionRule(swReq.url)
      THEN /\ swResult.kind = "passthrough"
           /\ swLog = {}
           /\ ePc = "idle"
           /\ eFetchLog = << >>
      ELSE /\ "forward" \in swLog
           /\ eCaller = "sw"
           /\ eReq.url = swReq.url

\* a request exempt only by the "." in its path has been passed through
\* after an earlier request was forwarded and stored
C25_Witness ==
  /\ swReq.url = AssetUrl
  /\ swResult.kind = "passthrough"
  /\ events = 2
  /\ NewsUrl \in DOMAIN clientCache

\* C26: a failure of the activity log never changes the answer of the
\* request being logged: when the log INSERT fails during a config update
\* that was accepted and stored, POST /api/config still answers success
\* with the new configuration, and the stored configuration stays.
C26_LogFailureSwallowed ==
  (cPc = "done" /\ cLog = "failed") =>
    /\ cOut.status = 200
    /\ cOut.json.success
    /\ cOut.json.config = cNew[1]
    /\ proxy_config = cNew

\* an update that disables the proxy was stored, its log row was refused,
\* and the caller has the success answer
C26_Witness ==
  /\ cPc = "done"
  /\ cLog = "failed"
  /\ proxy_logs = << >>
  /\ cOut.status = 200
  /\ ~cOut.json.config.enabled

\* C27: once POST /api/config has accepted and stored an update, every
\* proxy request that follows is evaluated under the updated configuration:
\* the configuration a handler run loads after the update was answered is
\* the stored one.
C27_UpdateTakesEffect ==
  [][(cPc = "done" /\ proxy_config # None /\ eConfig = None /\ eConfig' # None)
       => eConfig'[1] = proxy_config[1]]_vars

\* a call that has returned gave an answer its own request gets when it is
\* run by itself, the answer for the response it read itself
RunAlone(run) ==
  run.ePc = "done" =>
    /\ run.eReq = PairRequest[run.eCaller]
    /\ run.eOut \in PostOutcomes(edgeConfig, PairRequest[run.eCaller], origin)
    /\ (run.eResp # None /\ run.eOut # UnclassifiedFailure)
          => run.eOut = AnswerFor(run.eConfig[1], PairRequest[run.eCaller], run.eResp[1])
    /\ run.eInserted = 1 <=> (run.eOut.status = 200 /\ run.eOut.json.cacheable)

C29_DisabledAlways503 ==
  (eConfig # None /\ ~eConfig[1].enabled) =>
    /\ EdgeDone
    /\ eOut = ErrorOut(503, "Proxy service is disabled")
    /\ eFetchLog = << >>
    /\ eOriginReq = None
    /\ eInsert = None
    /\ eInserted = 0

\* a request with an invalid url was answered 503 under a disabled
\* configuration after an earlier event
C29_Witness ==
  /\ EdgeDone
  /\ eConfig # None
  /\ ~eConfig[1].enabled
  /\ ~eReq.malformed
  /\ eReq.url # Null
  /\ ~UrlValid(eReq.url)
  /\ eOut.status = 503
  /\ events = 2

\* an earlier invocation delivered a cacheable response for the request: its
\* cache.put is still pending, or has stored its entry
DeliveredCacheable(request) ==
  \/ \E put \in pendingPuts : put.url = request.url /\ put.method = request.method
  \/ (request.url # AppRoot /\ request.url \in DOMAIN clientCache)

\* C30: once a cacheable response for a request has been delivered, a later
\* invocation for the same request whose forwarding call fails, and whose
\* cache lookup settles, returns a cached response for it and not the 503
\* placeholder, wherever the cache write started at the delivery has got to.
C30_FallbackAfterDelivery ==
  (SwDone /\ ForwardingFailed /\ swResult.kind # "rejected" /\ DeliveredCacheable(swReq)) =>
    /\ swResult.kind = "cached"
    /\ swResult.response.status # 503

\* C31: no origin fetch goes to a blocked host: whatever the url rules and
\* the fronting step do, the host of the url that is fetched contains no
\* blockedDomains entry.
C31_NeverFetchesBlocked ==
  eFetchLog # << >> =>
    ~Matches(eConfig[1].blockedDomains, UrlHostname(eFetchLog[1]))

\* C32: a body of at most maxContentLength bytes is never rejected as too
\* large: once the run has returned, the answer is not 413 and, unless the run
\* failed elsewhere, the body was passed to transformContent.
C32_WithinCapAccepted ==
  (EdgeDone /\ eBuffer # None
     /\ Len(eBuffer[1]) <= eConfig[1].maxContentLength) =>
    /\ eOut.status # 413
    /\ eOut.status = 200 => eTransformIn # None

\* the origin answered the run with an error status and its body was read
\* within the size cap
ErrorStatusFetched ==
  /\ eResp # None /\ eResp[1].status >= 400
  /\ eBuffer # None /\ Len(eBuffer[1]) <= eConfig[1].maxContentLength

\* C33: an origin response with status >= 400, fetched within the size cap, is
\* returned as a success output with that status and cacheable = false; the
\* service worker delivers it with that status, not through the fallback, and
\* neither proxy_cache nor the client cache is written.
C33_ErrorStatusDelivered ==
  ErrorStatusFetched =>
    /\ EdgeDone =>
         /\ eOut.status = 200
         /\ eOut.json.status = eResp[1].status
         /\ ~eOut.json.cacheable
         /\ eInserted = 0
    /\ (EdgeDone /\ eCaller = "sw" /\ "answered" \in swLog) =>
         /\ "match" \notin swLog
         /\ "put" \notin swLog
         /\ swPc = "done" =>
              /\ swResult.kind = "fresh"
              /\ swResult.response.status = eResp[1].status

\* C34: a failure of the proxy_cache write does not fail the request: however
\* the awaited INSERT settles, the run returns the success output with the
\* transformed content that the row was to hold and cacheable = TRUE.
C34_WriteFailureTolerated ==
  [][(ePc = "insert" /\ ePc' = "done") =>
        /\ eOut'.status = 200
        /\ eOut'.json.cacheable
        /\ eOut'.json.content = eInsert[1].content]_vars

\* C35: proxy_cache is never read: every run for a valid url that domain
\* policy let through has sent an origin request, whatever rows the table
\* holds for that url, and every success output carries x-cache-status MISS.
C35_AlwaysFetchesMiss ==
  /\ PassedPolicy => Len(eFetchLog) = 1
  /\ SuccessOut =>
       /\ "x-cache-status" \in DOMAIN eOut.json.headers
       /\ eOut.json.headers["x-cache-status"] = "MISS"

\* the value the callers send for a field: the one well-typed value that the
\* update bodies carry for it
Sent(k) ==
  LET i == CHOOSE j \in 1..Len(UpdateBodies) :
             /\ k \in DOMAIN UpdateBodies[j].entries
             /\ UpdateBodies[j].entries[k].type = FieldTypes[k]
  IN  UpdateBodies[i].entries[k].value

\* the fields of the last two updates that were accepted and logged
EarlierChanges == proxy_logs[Len(proxy_logs) - 1].metadata.changes
LaterChanges   == proxy_logs[Len(proxy_logs)].metadata.changes

\* C36: partial updates accumulate: when an update of field A and then an
\* update of a different field B have been accepted, a GET /api/config that
\* follows and succeeds returns a configuration with the new A and the new B.
C36_UpdatesAccumulate ==
  [][(/\ gOut' # gOut
      /\ gOut'.status = 200
      /\ cPc = "done" /\ cOut.status = 200
      /\ Len(proxy_logs) = 2
      /\ EarlierChanges # {} /\ LaterChanges # {}
      /\ EarlierChanges \cap LaterChanges = {})
        => \A k \in (EarlierChanges \cup LaterChanges) \cap DOMAIN FieldTypes :
             gOut'.json.config[k] = Sent(k)]_vars

\* the update has a field whose type is not the one the configuration
\* requires of it
WrongType(entries) ==
  \E k \in DOMAIN entries \cap DOMAIN FieldTypes : entries[k].type # FieldTypes[k]

MatchingNewestFirst ==
  OrderByTimestampDesc(SelectSeq(proxy_logs, LAMBDA row : WhereClause(lReq, row)))

\* C38: GET /api/logs returns, of the entries matching the filters ordered
\* newest first, those at positions offset .. offset + limit - 1 (limit at
\* most 1000), and hasMore is TRUE exactly when offset + limit < total; limit
\* and offset are numbers that are not negative.
C38_PageOfNewestFirst ==
  (lPc = "done" /\ lOut.status = 200
     /\ ~LogsQueryRefused(LimitOf(lReq), OffsetOf(lReq))) =>
    \E limit \in {LimitOf(lReq)[1]}, offset \in {OffsetOf(lReq)[1]} :
      /\ lOut.json.total = Len(MatchingNewestFirst)
      /\ lOut.json.logs =
           SubSeq(MatchingNewestFirst, offset + 1,
                  IF offset + limit < Len(MatchingNewestFirst)
                    THEN offset + limit ELSE Len(MatchingNewestFirst))
      /\ lOut.json.hasMore <=> (offset + limit < Len(MatchingNewestFirst))

====
